---- MODULE Spec2Model ----
(***************************************************************************)
(* A model of the Astra toolchain (src/astra): JSON-AST modules, the       *)
(* effect checker, the semantic analyser, the type checker, the repair     *)
(* suggester, the patch engine, the canonical formatter, the AST           *)
(* interpreter with its effect gate, and the editor service's code         *)
(* actions.                                                                *)
(*                                                                         *)
(* JSON values are records of one shape so that any two can be compared:   *)
(*   k  : "null" | "bool" | "num" | "str" | "arr" | "obj"                  *)
(*   s  : the characters of a string                                       *)
(*   n  : the integer of a number; 1 / 0 for true / false                  *)
(*   ks : the keys of an object, in insertion order (a Python dict)        *)
(*   vs : the members of an object (aligned with ks) or the items of a list*)
(***************************************************************************)
EXTENDS Integers, Sequences, FiniteSets, TLC

J(k, s, n, ks, vs) == [k |-> k, s |-> s, n |-> n, ks |-> ks, vs |-> vs]
JNull == J("null", "", 0, <<>>, <<>>)
JTrue == J("bool", "", 1, <<>>, <<>>)
JFalse == J("bool", "", 0, <<>>, <<>>)
JNum(n) == J("num", "", n, <<>>, <<>>)
JStr(s) == J("str", s, 0, <<>>, <<>>)
JArr(vs) == J("arr", "", 0, <<>>, vs)
JObj(ks, vs) == J("obj", "", 0, ks, vs)

IsDict(v) == v.k = "obj"
IsList(v) == v.k = "arr"
IsStr(v) == v.k = "str"
IsNone(v) == v.k = "null"

\* Python truthiness of a JSON value (the `x or default` idiom, `if cond`).
Truthy(v) ==
    CASE v.k = "null" -> FALSE
      [] v.k = "bool" -> v.n = 1
      [] v.k = "num" -> v.n # 0
      [] v.k = "str" -> v.s # ""
      [] OTHER -> Len(v.vs) > 0

\* dict operations: `key in d`, d[key], d.get(key, default)
Has(d, key) == IsDict(d) /\ \E i \in 1..Len(d.ks) : d.ks[i] = key
Get(d, key) == d.vs[CHOOSE i \in 1..Len(d.ks) : d.ks[i] = key]
GetOr(d, key, default) == IF Has(d, key) THEN Get(d, key) ELSE default
\* d[key] = value on a dict: overwrite in place, or append a new last key
DictSet(d, key, value) ==
    IF Has(d, key)
    THEN [d EXCEPT !.vs = [i \in 1..Len(d.vs) |-> IF d.ks[i] = key THEN value ELSE d.vs[i]]]
    ELSE [d EXCEPT !.ks = Append(d.ks, key), !.vs = Append(d.vs, value)]

\* Sequence helpers
Range(seq) == {seq[i] : i \in 1..Len(seq)}
RECURSIVE Flatten(_)
Flatten(seqs) == IF Len(seqs) = 0 THEN <<>> ELSE Head(seqs) \o Flatten(Tail(seqs))
\* a sequence as a tuple: its elements are evaluated once, here
Tuple(seq) == seq \o <<>>
SeqMap(Op(_, _), seq) == [i \in 1..Len(seq) |-> Op(seq[i], i)]
RemoveAt(seq, i) == SubSeq(seq, 1, i - 1) \o SubSeq(seq, i + 1, Len(seq))
InsertAt(seq, i, v) == SubSeq(seq, 1, i - 1) \o <<v>> \o SubSeq(seq, i, Len(seq))
\* partial maps (Python dicts keyed by name)
Put(m, key, v) == [x \in DOMAIN m \cup {key} |-> IF x = key THEN v ELSE m[x]]
EmptyMap == [x \in {} |-> {}]

\* str(i) for the list indices that occur in pointers
Digits == <<"0", "1", "2", "3", "4", "5", "6", "7", "8", "9">>
IdxStr(i) == Digits[i + 1]
IsDigitSeg(seg) == seg \in Range(Digits)
SegInt(seg) == (CHOOSE i \in 1..Len(Digits) : Digits[i] = seg) - 1

\* name.rsplit(".", 1)[-1] / name.split(".")[-1]: the qualified names of the
\* model's inputs and their last segment; any other name has no dot.
_qual_last(name) ==
    CASE name = "std.print" -> "print"
      [] name = "m.g" -> "g"
      [] OTHER -> name

Issue(pointer, code, severity) == [pointer |-> pointer, code |-> code, severity |-> severity]

\* module.get("functions", []) or []
Functions(module) ==
    LET fs == GetOr(module, "functions", JArr(<<>>))
    IN IF Truthy(fs) THEN fs.vs ELSE <<>>
HasName(f) == IsDict(f) /\ Has(f, "name") /\ IsStr(Get(f, "name"))

(***************************************************************************)
(* pointer.py: JSON Pointer and the JSON Patch subset.  A pointer string is *)
(* modelled by the sequence of its escaped segments ("" is the empty       *)
(* sequence).                                                              *)
(***************************************************************************)
\* seg.replace("~", "~0").replace("/", "~1") on the segments of the model
escape_segment(seg) ==
    CASE seg = "a/b" -> "a~1b"
      [] seg = "m~n" -> "m~0n"
      [] OTHER -> seg
\* seg.replace("~1", "/").replace("~0", "~")
unescape_segment(seg) ==
    CASE seg = "a~1b" -> "a/b"
      [] seg = "m~0n" -> "m~n"
      [] OTHER -> seg
join_pointer(segments) == [i \in 1..Len(segments) |-> escape_segment(segments[i])]
\* split_pointer(pointer): "" and "/" are the root; pointer.lstrip("/") drops
\* every leading "/", that is every leading empty segment, and what is left is
\* split at "/" ("".split("/") is [""])
split_pointer(pointer) ==
    LET lead == Cardinality({i \in 1..Len(pointer) : \A h \in 1..i : pointer[h] = ""})
        rest == SubSeq(pointer, lead + 1, Len(pointer))
    IN IF Len(pointer) = 0 \/ pointer = <<"">> THEN <<>>
       ELSE IF Len(rest) = 0 THEN <<"">>
       ELSE [i \in 1..Len(rest) |-> unescape_segment(rest[i])]

\* A semantic / type issue: its pointer is join_pointer(ptr).
SemIssue(ptr, code, severity) == Issue(join_pointer(ptr), code, severity)

\* _coerce_index(seg, cur) returns an int only for a digit segment on a list
IsIndex(seg, cur) == IsList(cur) /\ seg # "-" /\ IsDigitSeg(seg)

\* resolve(doc, pointer) over the unescaped segments: [ok, val]; ok = FALSE
\* stands for the KeyError / IndexError the code raises.
RECURSIVE resolve_segs(_, _)
resolve_segs(cur, segs) ==
    IF Len(segs) = 0 THEN [ok |-> TRUE, val |-> cur]
    ELSE LET raw == Head(segs)
         IN IF IsList(cur)
            THEN IF IsIndex(raw, cur) /\ SegInt(raw) < Len(cur.vs)
                 THEN resolve_segs(cur.vs[SegInt(raw) + 1], Tail(segs))
                 ELSE [ok |-> FALSE, val |-> JNull]
            ELSE IF IsDict(cur)
            THEN IF Has(cur, raw) THEN resolve_segs(Get(cur, raw), Tail(segs))
                 ELSE [ok |-> FALSE, val |-> JNull]
            ELSE [ok |-> FALSE, val |-> JNull]
resolve(doc, pointer) == resolve_segs(doc, split_pointer(pointer))

\* The document with the container at segs replaced by v: the in-place
\* mutation of a resolved parent, seen from the root.
RECURSIVE WriteAt(_, _, _)
WriteAt(cur, segs, v) ==
    IF Len(segs) = 0 THEN v
    ELSE LET raw == Head(segs)
         IN IF IsList(cur)
            THEN [cur EXCEPT !.vs[SegInt(raw) + 1] = WriteAt(@, Tail(segs), v)]
            ELSE DictSet(cur, raw, WriteAt(Get(cur, raw), Tail(segs), v))

\* one operation of apply_patch: [ok, doc]
apply_op(doc, op) ==
    LET kind == GetOr(op, "op", JNull)
        path == GetOr(op, "path", JNull)
        fail == [ok |-> FALSE, doc |-> doc]
        done(d) == [ok |-> TRUE, doc |-> d]
    IN IF ~IsDict(op) \/ ~IsStr(kind) \/ kind.s \notin {"add", "replace", "remove"}
          \/ ~IsList(path)
       THEN fail
       ELSE LET segs == split_pointer([i \in 1..Len(path.vs) |-> path.vs[i].s])
                psegs == SubSeq(segs, 1, Len(segs) - 1)
                parent == resolve_segs(doc, psegs)
                key == segs[Len(segs)]
                isInt == IsIndex(key, parent.val)
                put(newParent) == done(WriteAt(doc, psegs, newParent))
            IN IF kind.s = "remove"
               THEN IF Len(segs) = 0 \/ ~parent.ok THEN fail
                    ELSE IF IsList(parent.val)
                    THEN IF isInt /\ SegInt(key) < Len(parent.val.vs)
                         THEN put([parent.val EXCEPT !.vs = RemoveAt(@, SegInt(key) + 1)])
                         ELSE fail
                    ELSE IF IsDict(parent.val)
                    THEN IF Has(parent.val, key)
                         THEN LET i == CHOOSE j \in 1..Len(parent.val.ks) : parent.val.ks[j] = key
                              IN put([parent.val EXCEPT !.ks = RemoveAt(@, i), !.vs = RemoveAt(@, i)])
                         ELSE done(doc)
                    ELSE fail
               ELSE IF ~Has(op, "value") THEN fail
               ELSE LET value == Get(op, "value")
                    IN IF Len(segs) = 0 THEN done(value)
                       ELSE IF ~parent.ok THEN fail
                       ELSE IF IsList(parent.val)
                       THEN IF key = "-"
                            THEN put([parent.val EXCEPT !.vs = Append(@, value)])
                            ELSE IF ~isInt THEN fail
                            ELSE IF kind.s = "add"
                            THEN put([parent.val EXCEPT !.vs =
                                        IF SegInt(key) >= Len(@) THEN Append(@, value)
                                        ELSE InsertAt(@, SegInt(key) + 1, value)])
                            ELSE IF SegInt(key) < Len(parent.val.vs)
                            THEN put([parent.val EXCEPT !.vs[SegInt(key) + 1] = value])
                            ELSE fail
                       ELSE IF IsDict(parent.val) THEN put(DictSet(parent.val, key, value))
                       ELSE fail

\* apply_patch(doc, patch): [ok, doc]; on an error the document keeps the
\* operations applied before it.
RECURSIVE apply_patch(_, _)
apply_patch(doc, patch) ==
    IF Len(patch) = 0 THEN [ok |-> TRUE, doc |-> doc]
    ELSE LET r == apply_op(doc, Head(patch))
         IN IF r.ok THEN apply_patch(r.doc, Tail(patch)) ELSE r

\* a patch operation as a JSON object; its path is the list of the pointer's
\* escaped segments
PatchOp(kind, path) ==
    JObj(<<"op", "path">>, <<JStr(kind), JArr([i \in 1..Len(path) |-> JStr(path[i])])>>)
PatchOpV(kind, path, value) ==
    JObj(<<"op", "path", "value">>,
         <<JStr(kind), JArr([i \in 1..Len(path) |-> JStr(path[i])]), value>>)

(***************************************************************************)
(* effects.py: the static effect checker                                   *)
(***************************************************************************)
PureBuiltins ==
    {"add", "sub", "mul", "div", "eq", "neq", "lt", "lte", "gt", "gte", "and", "or",
     "not", "str_len", "str_concat", "str_contains", "len", "list_get", "list_set",
     "list_append", "list_concat", "list_slice", "list_range", "list_sum", "list_mean",
     "list_map", "list_filter", "list_reduce", "obj_get", "obj_get_or", "obj_has",
     "obj_set", "obj_del", "obj_keys", "obj_merge"}
BuiltinNames == PureBuiltins \cup {"print", "http_get"}
BUILTIN_EFFECTS ==
    [b \in BuiltinNames |->
        CASE b = "print" -> {"io.print"}
          [] b = "http_get" -> {"net.http"}
          [] OTHER -> {"pure"}]
HigherOrder == {"list_map", "list_filter", "list_reduce"}

\* iter_calls(node, ptr): the (fn_name, pointer) pairs of every call-like reference
\* inside node, in the generator's order.
RECURSIVE iter_calls(_, _)
iter_calls(node, ptr) ==
    IF IsDict(node)
    THEN LET call == GetOr(node, "call", JNull)
             fn == GetOr(call, "fn", JNull)
             own == IF IsDict(call) /\ IsStr(fn)
                    THEN <<[name |-> _qual_last(fn.s), ptr |-> ptr \o <<"call", "fn">>]>>
                         \o (LET args == GetOr(call, "args", JArr(<<>>))
                             IN IF _qual_last(fn.s) \in HigherOrder /\ IsList(args)
                                   /\ Len(args.vs) > 0 /\ IsStr(args.vs[1])
                                THEN <<[name |-> _qual_last(args.vs[1].s),
                                        ptr |-> ptr \o <<"call", "args", "0">>]>>
                                ELSE <<>>)
                    ELSE <<>>
         IN own \o Flatten([i \in 1..Len(node.vs) |-> iter_calls(node.vs[i], Append(ptr, node.ks[i]))])
    ELSE IF IsList(node)
    THEN Flatten([i \in 1..Len(node.vs) |-> iter_calls(node.vs[i], Append(ptr, IdxStr(i - 1)))])
    ELSE <<>>

\* _user_function_index: name -> function object (the last of that name) and
\* name -> index (0-based, of the last of that name)
UserNames(module) == {Get(f, "name").s : f \in {g \in Range(Functions(module)) : HasName(g)}}
UserIndex(module, name) ==
    LET fs == Functions(module)
        hits == {i \in 1..Len(fs) : HasName(fs[i]) /\ Get(fs[i], "name").s = name}
    IN (CHOOSE i \in hits : \A j \in hits : j <= i) - 1
UserFunc(module, name) == Functions(module)[UserIndex(module, name) + 1]
\* dict insertion order of user_funcs: by first occurrence of the name
UserOrder(module) ==
    LET fs == Functions(module)
        F[i \in 0..Len(fs)] ==
            IF i = 0 THEN <<>>
            ELSE IF HasName(fs[i]) /\ Get(fs[i], "name").s \notin Range(F[i - 1])
                 THEN Append(F[i - 1], Get(fs[i], "name").s)
                 ELSE F[i - 1]
    IN F[Len(fs)]

\* set(fn.get("effects", []) or [])
DeclaredList(fn) ==
    LET e == GetOr(fn, "effects", JArr(<<>>))
    IN IF Truthy(e) THEN e.vs ELSE <<>>
DeclaredSet(fn) == {t.s : t \in Range(DeclaredList(fn))}
DeclaredOrPure(fn) == IF DeclaredSet(fn) = {} THEN {"pure"} ELSE DeclaredSet(fn)

\* fn.get("body", []) or []
Body(fn) ==
    LET b == GetOr(fn, "body", JArr(<<>>))
    IN IF Truthy(b) THEN b.vs ELSE <<>>

\* The (callee, pointer) pairs of a function's body, statement by statement.
BodyCalls(module, fn_name) ==
    LET fn == UserFunc(module, fn_name)
        base == <<"functions", IdxStr(UserIndex(module, fn_name)), "body">>
    IN Flatten([i \in 1..Len(Body(fn)) |-> iter_calls(Body(fn)[i], Append(base, IdxStr(i - 1)))])

\* The memo of compute_transitive_effects with its insertion order; ret is
\* the value the last visit returned.
MemoSet(st, name, eff) ==
    [st EXCEPT !.memo = Put(st.memo, name, eff),
               !.order = IF name \in DOMAIN st.memo THEN st.order ELSE Append(st.order, name),
               !.ret = eff]

\* visit, its loop over the calls of a body and the loop over the functions call
\* one another by name; Effects(op, a) is that call, a the argument tuple.
RECURSIVE Effects(_, _)
visit(module, fn_name, st) ==
    IF fn_name \in DOMAIN st.memo THEN [st EXCEPT !.ret = st.memo[fn_name]]
    ELSE IF fn_name \in st.visiting
    THEN \* recursion: trust the declaration
         MemoSet(st, fn_name,
                 IF fn_name \in UserNames(module)
                 THEN DeclaredOrPure(UserFunc(module, fn_name)) ELSE {"pure"})
    ELSE IF fn_name \in BuiltinNames THEN MemoSet(st, fn_name, BUILTIN_EFFECTS[fn_name])
    ELSE IF fn_name \notin UserNames(module) THEN MemoSet(st, fn_name, {})
    ELSE LET declared == DeclaredOrPure(UserFunc(module, fn_name))
             st2 == Effects("visit_calls",
                            <<module, BodyCalls(module, fn_name), 1, declared,
                              [st EXCEPT !.visiting = @ \cup {fn_name}]>>)
         IN MemoSet([st2 EXCEPT !.visiting = @ \ {fn_name}], fn_name, st2.ret)

\* the loop over iter_calls in visit: required |= visit(callee), or an
\* UnknownFunctionCall issue; returns the state with ret = required
visit_calls(module, calls, i, required, st) ==
    IF i > Len(calls) THEN [st EXCEPT !.ret = required]
    ELSE LET c == calls[i]
         IN IF c.name \in BuiltinNames \/ c.name \in UserNames(module)
            THEN LET st1 == Effects("visit", <<module, c.name, st>>)
                 IN Effects("visit_calls", <<module, calls, i + 1, required \cup st1.ret, st1>>)
            ELSE Effects("visit_calls",
                         <<module, calls, i + 1, required,
                           [st EXCEPT !.issues = Append(@, Issue(c.ptr, "UnknownFunctionCall", "error"))]>>)

\* for fn_name in user_funcs: visit(fn_name)
visit_all(module, names, i, st) ==
    IF i > Len(names) THEN st
    ELSE Effects("visit_all", <<module, names, i + 1, Effects("visit", <<module, names[i], st>>)>>)

\* compute_transitive_effects(module): [memo, order, issues]
compute_transitive_effects(module) ==
    Effects("visit_all",
            <<module, UserOrder(module), 1,
              [memo |-> EmptyMap, order |-> <<>>, visiting |-> {}, issues |-> <<>>, ret |-> {}]>>)

\* check_effects(module): the issue list
check_effects(module) ==
    LET te == Effects("compute_transitive_effects", <<module>>)
        per(name, i) ==
            IF name \in BuiltinNames \/ name \notin UserNames(module) THEN <<>>
            ELSE LET declared == DeclaredOrPure(UserFunc(module, name))
                     ptr == <<"functions", IdxStr(UserIndex(module, name)), "effects">>
                 IN (IF te.memo[name] \ declared # {}
                     THEN <<Issue(ptr, "MissingEffect", "error")>> ELSE <<>>)
                    \o (IF "pure" \in declared /\ Cardinality(declared) > 1
                        THEN <<Issue(ptr, "NotPure", "warning")>> ELSE <<>>)
    IN te.issues \o Flatten(SeqMap(per, te.order))

Effects(op, a) ==
    CASE op = "visit" /\ Len(a) = 3 -> visit(a[1], a[2], a[3])
      [] op = "visit_calls" /\ Len(a) = 5 -> visit_calls(a[1], a[2], a[3], a[4], a[5])
      [] op = "visit_all" /\ Len(a) = 4 -> visit_all(a[1], a[2], a[3], a[4])
      [] op = "compute_transitive_effects" /\ Len(a) = 1 -> compute_transitive_effects(a[1])
      [] op = "check_effects" /\ Len(a) = 1 -> check_effects(a[1])

(***************************************************************************)
(* semantic.py: definite assignment, missing return, call arity            *)
(***************************************************************************)
BUILTIN_ARITY ==
    [b \in BuiltinNames |->
        CASE b \in {"not", "str_len", "len", "list_range", "list_sum", "list_mean",
                    "obj_keys", "print", "http_get"} -> 1
          [] b \in {"list_set", "list_slice", "list_reduce", "obj_get_or", "obj_set"} -> 3
          [] OTHER -> 2]
RESERVED_NAMES == {"result"}

\* fn.get("params", []) or []
Params(fn) ==
    LET p == GetOr(fn, "params", JArr(<<>>))
    IN IF Truthy(p) THEN p ELSE JArr(<<>>)
StrParams(fn) == {p.s : p \in {q \in Range(Params(fn).vs) : IsStr(q)}}

\* _collect_user_arities, then known_arities = BUILTIN_ARITY updated with it
UserArity(fn) == Cardinality({i \in 1..Len(Params(fn).vs) : IsStr(Params(fn).vs[i])})
HasArity(f) == HasName(f) /\ IsList(Params(f))
known_arities(module) ==
    LET users == {Get(f, "name").s : f \in {g \in Range(Functions(module)) : HasArity(g)}}
        last(name) == LET fs == Functions(module)
                          hits == {i \in 1..Len(fs) : HasArity(fs[i]) /\ Get(fs[i], "name").s = name}
                      IN fs[CHOOSE i \in hits : \A j \in hits : j <= i]
    IN [n \in BuiltinNames \cup users |->
           IF n \in users THEN UserArity(last(n)) ELSE BUILTIN_ARITY[n]]

IsLiteral(expr) == expr.k \in {"null", "bool", "num", "str"}

\* a flow that counts every maybe-assigned name as definitely assigned
FlowOfMaybe(definite, maybe) == [definite |-> maybe, maybe |-> maybe]
\* a flow that drops the names assigned on some path only
FlowOfDefinite(definite, maybe) == [definite |-> definite, maybe |-> definite]
\* Flow(definite, maybe)
Flow(definite, maybe) == [definite |-> definite, maybe |-> maybe]

\* The functions of semantic.py call one another by name; Semantic(op, a) is
\* that call, a the argument tuple.
RECURSIVE Semantic(_, _)
_analyze_expr(expr, ptr, flow, arities) ==
    IF IsLiteral(expr) THEN <<>>
    ELSE IF ~IsDict(expr) THEN <<SemIssue(ptr, "InvalidExpr", "error")>>
    ELSE IF Has(expr, "var")
    THEN LET name == Get(expr, "var")
         IN IF ~IsStr(name) THEN <<SemIssue(ptr \o <<"var">>, "InvalidVarRef", "error")>>
            ELSE IF name.s \notin flow.definite
            THEN <<SemIssue(ptr \o <<"var">>, "UndefinedVariable", "error")>>
            ELSE <<>>
    ELSE IF Has(expr, "call")
    THEN LET call == Get(expr, "call")
             fn == GetOr(call, "fn", JNull)
             args == GetOr(call, "args", JArr(<<>>))
         IN IF ~IsDict(call) THEN <<SemIssue(ptr \o <<"call">>, "InvalidCall", "error")>>
            ELSE IF ~IsStr(fn) THEN <<SemIssue(ptr \o <<"call", "fn">>, "InvalidCall", "error")>>
            ELSE IF ~IsList(args) THEN <<SemIssue(ptr \o <<"call", "args">>, "InvalidCall", "error")>>
            ELSE LET fn_last == _qual_last(fn.s)
                     nameArity ==
                         IF fn_last \notin DOMAIN arities
                         THEN <<SemIssue(ptr \o <<"call", "fn">>, "UnknownFunctionCall", "error")>>
                         ELSE IF arities[fn_last] # Len(args.vs)
                         THEN <<SemIssue(ptr \o <<"call">>, "ArityMismatch", "error")>>
                         ELSE <<>>
                     refPtr == ptr \o <<"call", "args", "0">>
                     higher ==
                         IF fn_last \in HigherOrder /\ Len(args.vs) > 0
                         THEN LET ref == args.vs[1]
                              IN IF IsStr(ref)
                                 THEN IF _qual_last(ref.s) \notin DOMAIN arities
                                      THEN <<SemIssue(refPtr, "UnknownFunctionRef", "error")>>
                                      ELSE IF arities[_qual_last(ref.s)]
                                              # (IF fn_last = "list_reduce" THEN 2 ELSE 1)
                                      THEN <<SemIssue(refPtr, "ArityMismatch", "error")>>
                                      ELSE <<>>
                                 ELSE <<SemIssue(refPtr, "InvalidFunctionRef", "error")>>
                         ELSE <<>>
                 IN nameArity \o higher
                    \o Flatten([i \in 1..Len(args.vs) |->
                           Semantic("_analyze_expr", <<args.vs[i], ptr \o <<"call", "args", IdxStr(i - 1)>>,
                                         flow, arities>>)])
    ELSE IF Has(expr, "list")
    THEN LET arr == Get(expr, "list")
         IN IF ~IsList(arr) THEN <<SemIssue(ptr \o <<"list">>, "InvalidList", "error")>>
            ELSE Flatten([i \in 1..Len(arr.vs) |->
                     Semantic("_analyze_expr", <<arr.vs[i], ptr \o <<"list", IdxStr(i - 1)>>, flow, arities>>)])
    ELSE IF Has(expr, "obj")
    THEN LET obj == Get(expr, "obj")
         IN IF ~IsDict(obj) THEN <<SemIssue(ptr \o <<"obj">>, "InvalidObj", "error")>>
            ELSE Flatten([i \in 1..Len(obj.vs) |->
                     Semantic("_analyze_expr", <<obj.vs[i], ptr \o <<"obj", obj.ks[i]>>, flow, arities>>)])
    ELSE <<SemIssue(ptr, "UnknownExpr", "error")>>

\* Both return [flow, ret, issues]: the output flow, always_returns, and the
\* issues appended while analysing.
\* the for loop of _analyze_block from statement i on
analyze_from(stmts, i, ptr, flow, terminated, arities) ==
    IF i > Len(stmts) THEN [flow |-> flow, ret |-> terminated, issues |-> <<>>]
    ELSE LET stmt_ptr == Append(ptr, IdxStr(i - 1))
         IN IF terminated
            THEN LET rest == Semantic("analyze_from", <<stmts, i + 1, ptr, flow, terminated, arities>>)
                 IN [rest EXCEPT !.issues =
                        <<SemIssue(stmt_ptr, "UnreachableStatement", "warning")>> \o @]
            ELSE LET one == Semantic("_analyze_stmt", <<stmts[i], stmt_ptr, flow, arities>>)
                     rest == Semantic("analyze_from", <<stmts, i + 1, ptr, one.flow, one.ret, arities>>)
                 IN [rest EXCEPT !.issues = one.issues \o @]

_analyze_block(stmts, ptr, flow_in, arities) == Semantic("analyze_from", <<stmts, 1, ptr, flow_in, FALSE, arities>>)

_analyze_stmt(stmt, ptr, flow_in, arities) ==
    LET out(flow, ret, issues) == [flow |-> flow, ret |-> ret, issues |-> issues]
    IN IF ~IsDict(stmt) \/ Len(stmt.ks) # 1
       THEN out(flow_in, FALSE, <<SemIssue(ptr, "InvalidStmt", "error")>>)
       ELSE LET tag == stmt.ks[1]
                spec == stmt.vs[1]
            IN CASE tag = "let" ->
                    IF ~IsDict(spec)
                    THEN out(flow_in, FALSE, <<SemIssue(ptr \o <<"let">>, "InvalidLet", "error")>>)
                    ELSE LET name == GetOr(spec, "name", JNull)
                         IN IF ~IsStr(name)
                            THEN out(flow_in, FALSE,
                                     <<SemIssue(ptr \o <<"let", "name">>, "InvalidLetName", "error")>>)
                            ELSE out(Flow(flow_in.definite \cup {name.s},
                                          flow_in.maybe \cup {name.s}),
                                     FALSE,
                                     (IF name.s \in RESERVED_NAMES
                                      THEN <<SemIssue(ptr \o <<"let", "name">>, "ReservedName", "error")>>
                                      ELSE <<>>)
                                     \o (IF name.s \in flow_in.maybe
                                         THEN <<SemIssue(ptr \o <<"let", "name">>, "Rebind", "error")>>
                                         ELSE <<>>)
                                     \o Semantic("_analyze_expr", <<GetOr(spec, "expr", JNull),
                                                      ptr \o <<"let", "expr">>, flow_in, arities>>))
                 [] tag = "expr" ->
                    out(flow_in, FALSE, Semantic("_analyze_expr", <<spec, ptr \o <<"expr">>, flow_in, arities>>))
                 [] tag = "assert" ->
                    IF ~IsDict(spec)
                    THEN out(flow_in, FALSE, <<SemIssue(ptr \o <<"assert">>, "InvalidAssert", "error")>>)
                    ELSE out(flow_in, FALSE,
                             Semantic("_analyze_expr", <<GetOr(spec, "expr", JNull),
                                           ptr \o <<"assert", "expr">>, flow_in, arities>>))
                 [] tag = "return" ->
                    out(flow_in, TRUE, Semantic("_analyze_expr", <<spec, ptr \o <<"return">>, flow_in, arities>>))
                 [] tag = "if" ->
                    IF ~IsDict(spec)
                    THEN out(flow_in, FALSE, <<SemIssue(ptr \o <<"if">>, "InvalidIf", "error")>>)
                    ELSE LET condIssues == Semantic("_analyze_expr", <<GetOr(spec, "cond", JNull),
                                                         ptr \o <<"if", "cond">>, flow_in, arities>>)
                             then == GetOr(spec, "then", JArr(<<>>))
                             els == GetOr(spec, "else", JArr(<<>>))
                         IN IF ~IsList(then) \/ ~IsList(els)
                            THEN out(flow_in, FALSE,
                                     condIssues \o <<SemIssue(ptr \o <<"if">>, "InvalidIf", "error")>>)
                            ELSE LET t == Semantic("_analyze_block", <<then.vs, ptr \o <<"if", "then">>, flow_in, arities>>)
                                     e == Semantic("_analyze_block", <<els.vs, ptr \o <<"if", "else">>, flow_in, arities>>)
                                 IN out(Flow(t.flow.definite \cap e.flow.definite,
                                             t.flow.maybe \cup e.flow.maybe),
                                        t.ret /\ e.ret,
                                        condIssues \o t.issues \o e.issues)
                 [] OTHER -> out(flow_in, FALSE, <<SemIssue(ptr, "UnknownStmt", "error")>>)

\* semantic.check_module(module): the issue list
semantic_check_module(module) ==
    LET arities == known_arities(module)
        per(fn, i) ==
            IF ~HasArity(fn) THEN <<>>
            ELSE LET base == <<"functions", IdxStr(i - 1)>>
                     ps == Params(fn).vs
                     reserved == Flatten([p \in 1..Len(ps) |->
                                     IF IsStr(ps[p]) /\ ps[p].s \in RESERVED_NAMES
                                     THEN <<SemIssue(base \o <<"params", IdxStr(p - 1)>>, "ReservedName", "error")>>
                                     ELSE <<>>])
                     body == GetOr(fn, "body", JArr(<<>>))
                     flow0 == Flow(StrParams(fn), StrParams(fn))
                 IN IF Truthy(body) /\ ~IsList(body)
                    THEN reserved \o <<SemIssue(base \o <<"body">>, "InvalidBody", "error")>>
                    ELSE LET r == Semantic("_analyze_block", <<Body(fn), base \o <<"body">>, flow0, arities>>)
                         IN reserved \o r.issues
                            \o (IF ~r.ret THEN <<SemIssue(base, "MissingReturn", "error")>> ELSE <<>>)
    IN Flatten(SeqMap(per, Functions(module)))

Semantic(op, a) ==
    CASE op = "_analyze_expr" /\ Len(a) = 4 -> _analyze_expr(a[1], a[2], a[3], a[4])
      [] op = "analyze_from" /\ Len(a) = 6 -> analyze_from(a[1], a[2], a[3], a[4], a[5], a[6])
      [] op = "_analyze_block" /\ Len(a) = 4 -> _analyze_block(a[1], a[2], a[3], a[4])
      [] op = "_analyze_stmt" /\ Len(a) = 4 -> _analyze_stmt(a[1], a[2], a[3], a[4])
      [] op = "check_module" /\ Len(a) = 1 -> semantic_check_module(a[1])

(***************************************************************************)
(* typecheck.py: the type model.  Types are records of one shape:          *)
(*   k : "Any" | "Prim" | "Var" | "List" | "Record";  n : the name;        *)
(*   i : the instance number of a freshened variable (T#i), 0 if none;     *)
(*   ks : the field names of a record;  e : the element type of a list (a  *)
(*   one-element sequence) or the field types of a record                  *)
(***************************************************************************)
Ty(k, n, i, ks, e) == [k |-> k, n |-> n, i |-> i, ks |-> ks, e |-> e]
AnyType == Ty("Any", "", 0, <<>>, <<>>)
Prim(name) == Ty("Prim", name, 0, <<>>, <<>>)
Var(name) == Ty("Var", name, 0, <<>>, <<>>)
FreshVar(name, i) == Ty("Var", name, i, <<>>, <<>>)
ListT(elem) == Ty("List", "", 0, <<>>, <<elem>>)
RecordT(ks, ts) == Ty("Record", "", 0, ks, ts)
VarKey(ty) == <<ty.n, ty.i>>
IsNull(ty) == ty.k = "Prim" /\ ty.n = "Null"

\* parse_type_expr on the annotations that occur in the model's modules; an
\* identifier that is no primitive is a type variable
parse_type_expr(expr) ==
    CASE expr = "Any" -> AnyType
      [] expr \in {"Int", "Float", "Bool", "String", "Null"} -> Prim(expr)
      [] expr = "List[Int]" -> ListT(Prim("Int"))
      [] expr = "List[T]" -> ListT(Var("T"))
      [] OTHER -> Var(expr)

RECURSIVE _apply(_, _)
_apply(ty, subst) ==
    IF ty.k = "Var" /\ VarKey(ty) \in DOMAIN subst THEN _apply(subst[VarKey(ty)], subst)
    ELSE IF ty.k \in {"List", "Record"}
    THEN [ty EXCEPT !.e = [j \in 1..Len(ty.e) |-> _apply(ty.e[j], subst)]]
    ELSE ty

RECURSIVE OccursIn(_, _)
OccursIn(key, ty) ==
    IF ty.k = "Var" THEN VarKey(ty) = key
    ELSE \E j \in 1..Len(ty.e) : OccursIn(key, ty.e[j])
_occurs(key, ty, subst) == OccursIn(key, _apply(ty, subst))

_num_join(a, b) ==
    IF a = b THEN a ELSE IF {a, b} = {"Int", "Float"} THEN "Float" ELSE "None"

\* unify(expected, actual, subst): [ok, subst], the substitution as the code
\* leaves it
\* The functions of typecheck.py call one another by name; Typecheck(op, a) is
\* that call, a the argument tuple.
RECURSIVE Typecheck(_, _)
unify(expected0, actual0, subst) ==
    LET expected == _apply(expected0, subst)
        actual == _apply(actual0, subst)
        yes(s) == [ok |-> TRUE, subst |-> s]
        no == [ok |-> FALSE, subst |-> subst]
    IN IF expected.k = "Any" \/ actual.k = "Any" THEN yes(subst)
       ELSE IF expected.k = "Var"
       THEN IF _occurs(VarKey(expected), actual, subst) THEN yes(subst)
            ELSE yes(Put(subst, VarKey(expected), actual))
       ELSE IF actual.k = "Var"
       THEN IF _occurs(VarKey(actual), expected, subst) THEN yes(subst)
            ELSE yes(Put(subst, VarKey(actual), expected))
       ELSE IF expected.k = "Prim" /\ actual.k = "Prim"
       THEN IF expected.n = actual.n \/ _num_join(expected.n, actual.n) = expected.n
            THEN yes(subst) ELSE no
       ELSE IF expected.k = "List" /\ actual.k = "List"
       THEN Typecheck("unify", <<expected.e[1], actual.e[1], subst>>)
       ELSE IF expected.k = "Record" /\ actual.k = "Record"
       THEN Typecheck("unify_fields", <<expected, actual, 1, subst>>)
       ELSE no
\* the loop over expected.fields: actual may have extra fields
unify_fields(expected, actual, j, subst) ==
    IF j > Len(expected.ks) THEN [ok |-> TRUE, subst |-> subst]
    ELSE IF \A m \in 1..Len(actual.ks) : actual.ks[m] # expected.ks[j]
    THEN [ok |-> FALSE, subst |-> subst]
    ELSE LET m == CHOOSE m \in 1..Len(actual.ks) : actual.ks[m] = expected.ks[j]
             r == Typecheck("unify", <<expected.e[j], actual.e[m], subst>>)
         IN IF r.ok THEN Typecheck("unify_fields", <<expected, actual, j + 1, r.subst>>) ELSE r

RECURSIVE _join(_, _)
_join(a, b) ==
    IF a.k = "Any" \/ b.k = "Any" THEN AnyType
    ELSE IF a.k = "Prim" /\ b.k = "Prim"
    THEN IF _num_join(a.n, b.n) = "None" THEN AnyType ELSE Prim(_num_join(a.n, b.n))
    ELSE IF a.k = "List" /\ b.k = "List" THEN ListT(_join(a.e[1], b.e[1]))
    ELSE IF a.k = "Record" /\ b.k = "Record"
    THEN LET common == SelectSeq(a.ks, LAMBDA f : f \in Range(b.ks))
             at(t, f) == t.e[CHOOSE m \in 1..Len(t.ks) : t.ks[m] = f]
         IN RecordT(common, [j \in 1..Len(common) |-> _join(at(a, common[j]), at(b, common[j]))])
    ELSE IF a.k = "Var" /\ b.k = "Var" /\ a = b THEN a
    ELSE AnyType

Sig(name, type_params, param_names, param_types, ret) ==
    [name |-> name, type_params |-> type_params, param_names |-> param_names,
     param_types |-> param_types, ret |-> ret]

\* _builtin_sigs(): the signatures of the builtins
BuiltinSig(b) ==
    LET TInt == Prim("Int")
        TBool == Prim("Bool")
        TStr == Prim("String")
        LT == ListT(Var("T"))
        s0(ps, r) == Sig(b, <<>>, [j \in 1..Len(ps) |-> "_"], ps, r)
        sT(ps, r) == Sig(b, <<"T">>, [j \in 1..Len(ps) |-> "_"], ps, r)
    IN CASE b \in {"add", "sub", "mul"} -> s0(<<TInt, TInt>>, TInt)
         [] b = "div" -> s0(<<TInt, TInt>>, Prim("Float"))
         [] b \in {"eq", "neq"} -> s0(<<AnyType, AnyType>>, TBool)
         [] b \in {"lt", "lte", "gt", "gte"} -> s0(<<TInt, TInt>>, TBool)
         [] b \in {"and", "or"} -> s0(<<TBool, TBool>>, TBool)
         [] b = "not" -> s0(<<TBool>>, TBool)
         [] b = "str_len" -> s0(<<TStr>>, TInt)
         [] b = "str_concat" -> s0(<<TStr, TStr>>, TStr)
         [] b = "str_contains" -> s0(<<TStr, TStr>>, TBool)
         [] b = "len" -> sT(<<LT>>, TInt)
         [] b = "list_get" -> sT(<<LT, TInt>>, Var("T"))
         [] b = "list_set" -> sT(<<LT, TInt, Var("T")>>, LT)
         [] b = "list_append" -> sT(<<LT, Var("T")>>, LT)
         [] b = "list_concat" -> sT(<<LT, LT>>, LT)
         [] b = "list_slice" -> sT(<<LT, AnyType, AnyType>>, LT)
         [] b = "list_range" -> s0(<<TInt>>, ListT(TInt))
         [] b = "list_map" -> sT(<<TStr, LT>>, ListT(AnyType))
         [] b = "list_filter" -> sT(<<TStr, LT>>, LT)
         [] b = "list_reduce" -> s0(<<TStr, AnyType, ListT(AnyType)>>, AnyType)
         [] b = "list_sum" -> s0(<<ListT(AnyType)>>, AnyType)
         [] b = "list_mean" -> s0(<<ListT(AnyType)>>, Prim("Float"))
         [] b \in {"obj_get", "obj_del"} -> s0(<<AnyType, TStr>>, AnyType)
         [] b \in {"obj_get_or", "obj_set"} -> s0(<<AnyType, TStr, AnyType>>, AnyType)
         [] b = "obj_has" -> s0(<<AnyType, TStr>>, TBool)
         [] b = "obj_keys" -> s0(<<AnyType>>, ListT(TStr))
         [] b = "obj_merge" -> s0(<<AnyType, AnyType>>, AnyType)
         [] b = "print" -> s0(<<AnyType>>, Prim("Null"))
         [] OTHER -> s0(<<TStr>>, TStr)

\* _sig_from_function(fn)
_sig_from_function(fn) ==
    LET params == IF IsList(Params(fn)) THEN Params(fn).vs ELSE <<>>
        param_names == [j \in 1..Len(params) |-> IF IsStr(params[j]) THEN params[j].s ELSE "_"]
        tp == GetOr(fn, "type_params", JArr(<<>>))
        type_params == IF IsList(tp)
                       THEN [j \in 1..Len(SelectSeq(tp.vs, IsStr)) |-> SelectSeq(tp.vs, IsStr)[j].s]
                       ELSE <<>>
        pt_raw == GetOr(fn, "param_types", JNull)
        ret_raw == GetOr(fn, "returns", JNull)
    IN Sig(IF HasName(fn) THEN Get(fn, "name").s ELSE "<anon>",
           type_params, param_names,
           IF IsList(pt_raw) /\ Len(pt_raw.vs) = Len(param_names)
           THEN [j \in 1..Len(param_names) |-> parse_type_expr(pt_raw.vs[j].s)]
           ELSE [j \in 1..Len(param_names) |-> AnyType],
           IF IsStr(ret_raw) THEN parse_type_expr(ret_raw.s) ELSE AnyType)

\* sigs: builtins, overridden by the module's functions (the last of a name)
HasSig(module, name) == name \in BuiltinNames \cup UserNames(module)
SigOf(module, name) ==
    IF name \in UserNames(module) THEN _sig_from_function(UserFunc(module, name))
    ELSE BuiltinSig(name)

\* _freshen(sig, counter): [sig, counter]
_freshen(sig, counter) ==
    LET n == Len(sig.type_params)
        last(tp) == CHOOSE j \in 1..n : sig.type_params[j] = tp
                                        /\ \A m \in (j + 1)..n : sig.type_params[m] # tp
        subst == [key \in {<<sig.type_params[j], 0>> : j \in 1..n} |->
                     FreshVar(key[1], counter + last(key[1]))]
    IN [sig |-> Sig(sig.name, <<>>, sig.param_names,
                    [j \in 1..Len(sig.param_types) |-> _apply(sig.param_types[j], subst)],
                    _apply(sig.ret, subst)),
        counter |-> counter + n]

_type_of_literal(v) ==
    CASE v.k = "null" -> Prim("Null")
      [] v.k = "bool" -> Prim("Bool")
      [] v.k = "num" -> Prim("Int")
      [] v.k = "str" -> Prim("String")
      [] OTHER -> AnyType

\* sigs.get(fn_last) or sigs.get(fn)
SigKnown(module, fn_last, fn) == HasSig(module, fn_last) \/ HasSig(module, fn)
SigLookup(module, fn_last, fn) ==
    IF HasSig(module, fn_last) THEN Typecheck("SigOf", <<module, fn_last>>) ELSE Typecheck("SigOf", <<module, fn>>)

\* _infer_special_call for list_map / list_filter: [special, t, issues, counter];
\* special = FALSE is the code's None.  The modules of the model call no other
\* specially inferred builtin (list_reduce, list_sum, list_mean, obj_*).
_infer_special_call(fn_last, args_expr, arg_types, ptr, module, counter) ==
    LET out(sp, t, issues, c) == [special |-> sp, t |-> t, issues |-> issues, counter |-> c]
        arg(j) == ptr \o <<"call", "args", IdxStr(j)>>
    IN IF fn_last \in {"list_map", "list_filter"} /\ Len(arg_types) = 2
       THEN LET fn_ref == args_expr[1]
                xs_t == arg_types[2]
            IN IF ~IsStr(fn_ref)
               THEN out(TRUE, ListT(AnyType), <<SemIssue(arg(0), "TypeError", "error")>>, counter)
               ELSE IF xs_t.k # "List"
               THEN out(TRUE, ListT(AnyType), <<SemIssue(arg(1), "TypeMismatch", "error")>>, counter)
               ELSE IF ~SigKnown(module, _qual_last(fn_ref.s), fn_ref.s)
               THEN out(TRUE, ListT(AnyType),
                        <<SemIssue(arg(0), "UnknownFunctionCall", "error")>>, counter)
               ELSE LET fr == Typecheck("_freshen", <<Typecheck("SigLookup", <<module, _qual_last(fn_ref.s), fn_ref.s>>), counter>>)
                        callee_inst == fr.sig
                    IN IF Len(callee_inst.param_types) # 1
                       THEN out(TRUE, ListT(AnyType),
                                <<SemIssue(arg(0), "ArityMismatch", "error")>>, fr.counter)
                       ELSE LET u == Typecheck("unify", <<callee_inst.param_types[1], xs_t.e[1], EmptyMap>>)
                                ret_t == _apply(callee_inst.ret, u.subst)
                                first == IF u.ok THEN <<>>
                                         ELSE <<SemIssue(arg(1), "TypeMismatch", "error")>>
                            IN IF fn_last = "list_filter"
                               THEN out(TRUE, xs_t,
                                        first \o (IF Typecheck("unify", <<Prim("Bool"), ret_t, EmptyMap>>).ok THEN <<>>
                                                  ELSE <<SemIssue(arg(0), "TypeMismatch", "error")>>),
                                        fr.counter)
                               ELSE out(TRUE, ListT(ret_t), first, fr.counter)
       ELSE out(FALSE, AnyType, <<>>, counter)

\* _infer_expr(expr, env, ptr, issues, sigs, counter): [t, issues, counter] with
\* the issues it appends and the counter as it leaves it
\* the element-by-element loops: the types of exprs[j..], each at ptrs[j]
infer_each(exprs, ptrs, j, env, module, counter) ==
    IF j > Len(exprs) THEN [ts |-> <<>>, issues |-> <<>>, counter |-> counter]
    ELSE LET one == Typecheck("_infer_expr", <<exprs[j], env, ptrs[j], module, counter>>)
             rest == Typecheck("infer_each", <<exprs, ptrs, j + 1, env, module, one.counter>>)
         IN [ts |-> <<one.t>> \o rest.ts, issues |-> one.issues \o rest.issues,
             counter |-> rest.counter]

_infer_expr(expr, env, ptr, module, counter) ==
    LET out(t, issues, c) == [t |-> t, issues |-> issues, counter |-> c]
        bad(p, code) == out(AnyType, <<SemIssue(p, code, "error")>>, counter)
    IN IF IsLiteral(expr) THEN out(_type_of_literal(expr), <<>>, counter)
       ELSE IF ~IsDict(expr) THEN bad(ptr, "TypeError")
       ELSE IF Has(expr, "var")
       THEN LET name == Get(expr, "var")
            IN IF ~IsStr(name) THEN bad(ptr \o <<"var">>, "TypeError")
               ELSE IF name.s \notin DOMAIN env THEN bad(ptr \o <<"var">>, "UndefinedVariable")
               ELSE out(env[name.s], <<>>, counter)
       ELSE IF Has(expr, "list")
       THEN LET arr == Get(expr, "list")
            IN IF ~IsList(arr) THEN bad(ptr \o <<"list">>, "TypeError")
               ELSE IF Len(arr.vs) = 0 THEN out(ListT(AnyType), <<>>, counter)
               ELSE LET r == Typecheck("infer_each", <<arr.vs,
                                        [j \in 1..Len(arr.vs) |-> ptr \o <<"list", IdxStr(j - 1)>>],
                                        1, env, module, counter>>)
                        Joined[j \in 1..Len(r.ts)] ==
                            IF j = 1 THEN r.ts[1] ELSE _join(Joined[j - 1], r.ts[j])
                    IN out(ListT(Joined[Len(r.ts)]), r.issues, r.counter)
       ELSE IF Has(expr, "obj")
       THEN LET obj == Get(expr, "obj")
            IN IF ~IsDict(obj) THEN bad(ptr \o <<"obj">>, "TypeError")
               ELSE LET r == Typecheck("infer_each", <<obj.vs,
                                        [j \in 1..Len(obj.vs) |-> ptr \o <<"obj", obj.ks[j]>>],
                                        1, env, module, counter>>)
                    IN out(RecordT(obj.ks, r.ts), r.issues, r.counter)
       ELSE IF Has(expr, "call")
       THEN LET call == Get(expr, "call")
                fn == GetOr(call, "fn", JNull)
                args == GetOr(call, "args", JArr(<<>>))
            IN IF ~IsDict(call) THEN bad(ptr \o <<"call">>, "TypeError")
               ELSE IF ~IsStr(fn) THEN bad(ptr \o <<"call", "fn">>, "TypeError")
               ELSE IF ~IsList(args) THEN bad(ptr \o <<"call", "args">>, "TypeError")
               ELSE LET a == Typecheck("infer_each", <<args.vs,
                                        [j \in 1..Len(args.vs) |->
                                            ptr \o <<"call", "args", IdxStr(j - 1)>>],
                                        1, env, module, counter>>)
                        fn_last == _qual_last(fn.s)
                        special == Typecheck("_infer_special_call", <<fn_last, args.vs, a.ts, ptr, module, a.counter>>)
                    IN IF special.special
                       THEN out(special.t, a.issues \o special.issues, special.counter)
                       ELSE IF ~SigKnown(module, fn_last, fn.s)
                       THEN out(AnyType,
                                a.issues \o <<SemIssue(ptr \o <<"call", "fn">>,
                                                       "UnknownFunctionCall", "error")>>,
                                a.counter)
                       ELSE LET fr == Typecheck("_freshen", <<Typecheck("SigLookup", <<module, fn_last, fn.s>>), a.counter>>)
                                inst == fr.sig
                                n == Len(inst.param_types)
                                \* the substitution after unifying the first j parameters
                                U[j \in 0..n] ==
                                    IF j = 0 THEN [ok |-> TRUE, subst |-> EmptyMap]
                                    ELSE Typecheck("unify", <<inst.param_types[j], a.ts[j], U[j - 1].subst>>)
                            IN IF Len(a.ts) # n
                               THEN out(AnyType,
                                        a.issues \o <<SemIssue(ptr \o <<"call">>,
                                                               "ArityMismatch", "error")>>,
                                        fr.counter)
                               ELSE out(_apply(inst.ret, U[n].subst),
                                        a.issues
                                        \o Flatten([j \in 1..n |->
                                               IF U[j].ok THEN <<>>
                                               ELSE <<SemIssue(ptr \o <<"call", "args", IdxStr(j - 1)>>,
                                                               "TypeMismatch", "error")>>]),
                                        fr.counter)
       ELSE bad(ptr, "TypeError")

\* _check_stmt / _check_block: [env, ret, st] where st = [issues, counter,
\* ret_seen] is the shared state the code mutates
\* the for loop of _check_block from statement j on
check_from(stmts, j, env, ptr, module, ret_ann, always_returns, st) ==
    IF j > Len(stmts) THEN [env |-> env, ret |-> always_returns, st |-> st]
    ELSE IF always_returns
    THEN Typecheck("check_from", <<stmts, j + 1, env, ptr, module, ret_ann, always_returns, st>>)
    ELSE LET r == Typecheck("_check_stmt", <<stmts[j], env, Append(ptr, IdxStr(j - 1)), module, ret_ann, st>>)
         IN Typecheck("check_from", <<stmts, j + 1, r.env, ptr, module, ret_ann, r.ret, r.st>>)

_check_block(stmts, env, ptr, module, ret_ann, st) ==
    Typecheck("check_from", <<stmts, 1, env, ptr, module, ret_ann, FALSE, st>>)

_check_stmt(stmt, env, ptr, module, ret_ann, st) ==
    LET out(e, ret, s) == [env |-> e, ret |-> ret, st |-> s]
        bad(p) == out(env, FALSE, [st EXCEPT !.issues = Append(@, SemIssue(p, "TypeError", "error"))])
        \* the state after inferring an expression, with a TypeMismatch-like
        \* issue appended when want fails to unify with its type
        infer(e, p) == Typecheck("_infer_expr", <<e, env, p, module, st.counter>>)
        after(r, want, p, code) ==
            [st EXCEPT !.counter = r.counter,
                       !.issues = @ \o r.issues
                                  \o (IF Typecheck("unify", <<want, r.t, EmptyMap>>).ok THEN <<>>
                                      ELSE <<SemIssue(p, code, "error")>>)]
    IN IF ~IsDict(stmt) \/ Len(stmt.ks) # 1 THEN bad(ptr)
       ELSE LET tag == stmt.ks[1]
                val == stmt.vs[1]
            IN CASE tag = "let" ->
                    IF ~IsDict(val) THEN bad(ptr \o <<"let">>)
                    ELSE IF ~IsStr(GetOr(val, "name", JNull)) THEN bad(ptr \o <<"let", "name">>)
                    ELSE LET name == Get(val, "name").s
                             r == infer(GetOr(val, "expr", JNull), ptr \o <<"let", "expr">>)
                         IN out(Put(env, name, r.t), FALSE,
                                [st EXCEPT !.counter = r.counter,
                                           !.issues = @ \o r.issues
                                               \o (IF name \in DOMAIN env
                                                   THEN <<SemIssue(ptr \o <<"let", "name">>,
                                                                   "Rebind", "error")>>
                                                   ELSE <<>>)])
                 [] tag = "assert" ->
                    IF ~IsDict(val) THEN bad(ptr \o <<"assert">>)
                    ELSE out(env, FALSE,
                             after(infer(GetOr(val, "expr", JNull), ptr \o <<"assert", "expr">>),
                                   Prim("Bool"), ptr \o <<"assert", "expr">>, "TypeMismatch"))
                 [] tag = "expr" ->
                    out(env, FALSE, after(infer(val, ptr \o <<"expr">>), AnyType, ptr, "TypeMismatch"))
                 [] tag = "return" ->
                    LET r == infer(val, ptr \o <<"return">>)
                        u == Typecheck("unify", <<ret_ann, r.t, EmptyMap>>)
                        s1 == after(r, ret_ann, ptr \o <<"return">>, "ReturnTypeMismatch")
                    IN out(env, TRUE, [s1 EXCEPT !.ret_seen = Append(@, _apply(r.t, u.subst))])
                 [] tag = "if" ->
                    IF ~IsDict(val) THEN bad(ptr \o <<"if">>)
                    ELSE LET s1 == after(infer(GetOr(val, "cond", JNull), ptr \o <<"if", "cond">>),
                                         Prim("Bool"), ptr \o <<"if", "cond">>, "TypeMismatch")
                             then == GetOr(val, "then", JArr(<<>>))
                             els == GetOr(val, "else", JArr(<<>>))
                         IN IF ~IsList(then) \/ ~IsList(els)
                            THEN out(env, FALSE,
                                     [s1 EXCEPT !.issues =
                                         Append(@, SemIssue(ptr \o <<"if">>, "TypeError", "error"))])
                            ELSE LET t == Typecheck("_check_block", <<then.vs, env, ptr \o <<"if", "then">>,
                                                       module, ret_ann, s1>>)
                                     e == Typecheck("_check_block", <<els.vs, env, ptr \o <<"if", "else">>,
                                                       module, ret_ann, t.st>>)
                                     both == DOMAIN t.env \cap DOMAIN e.env
                                 IN out([k \in both \cup DOMAIN env |->
                                            IF k \in both THEN _join(t.env[k], e.env[k]) ELSE env[k]],
                                        t.ret /\ e.ret, e.st)
                 [] OTHER -> bad(ptr)

\* The per-function part of typecheck.check_module.  The modules of the model
\* carry no requires, ensures or function-level tests.
TypecheckFunction(module, fn, fi, st) ==
    IF ~HasName(fn) THEN st
    ELSE LET sig == Typecheck("SigOf", <<module, Get(fn, "name").s>>)
             n == IF Len(sig.param_names) < Len(sig.param_types)
                  THEN Len(sig.param_names) ELSE Len(sig.param_types)
             names == {sig.param_names[j] : j \in 1..n}
             env == [p \in names |->
                        sig.param_types[CHOOSE j \in 1..n : sig.param_names[j] = p
                                            /\ \A m \in (j + 1)..n : sig.param_names[m] # p]]
             body == GetOr(fn, "body", JArr(<<>>))
             s0 == [st EXCEPT !.ret_seen = <<>>]
             s1 == IF Truthy(body) /\ ~IsList(body) THEN s0
                   ELSE Typecheck("_check_block", <<Body(fn), env, <<"functions", IdxStr(fi), "body">>,
                                     module, sig.ret, s0>>).st
         IN IF Len(s1.ret_seen) = 0 /\ sig.ret.k # "Any" /\ ~IsNull(sig.ret)
            THEN [s1 EXCEPT !.issues =
                     Append(@, SemIssue(<<"functions", IdxStr(fi)>>, "MissingReturn", "error"))]
            ELSE s1

\* the module-level tests of typecheck.check_module
TypecheckTest(module, tc, ti, st) ==
    LET fn_name == GetOr(tc, "fn", JNull)
        args0 == GetOr(tc, "args", JArr(<<>>))
        args == IF Truthy(args0) THEN args0 ELSE JArr(<<>>)
        base == <<"tests", IdxStr(ti)>>
        add(s, issues) == [s EXCEPT !.issues = @ \o issues]
    IN IF ~IsDict(tc) \/ ~IsStr(fn_name) THEN st
       ELSE IF ~HasSig(module, fn_name.s)
       THEN add(st, <<SemIssue(base \o <<"fn">>, "UnknownFunctionCall", "error")>>)
       ELSE IF ~IsList(args) THEN st
       ELSE LET a == Typecheck("infer_each", <<args.vs,
                                [j \in 1..Len(args.vs) |-> base \o <<"args", IdxStr(j - 1)>>],
                                1, EmptyMap, module, st.counter>>)
                fr == Typecheck("_freshen", <<Typecheck("SigOf", <<module, fn_name.s>>), a.counter>>)
                inst == fr.sig
                n == Len(inst.param_types)
                U[j \in 0..n] ==
                    IF j = 0 THEN [ok |-> TRUE, subst |-> EmptyMap]
                    ELSE Typecheck("unify", <<inst.param_types[j], a.ts[j], U[j - 1].subst>>)
            IN IF Len(a.ts) # n
               THEN [st EXCEPT !.counter = fr.counter,
                               !.issues = @ \o a.issues
                                   \o <<SemIssue(base, "TestArityMismatch", "error")>>]
               ELSE LET x == Typecheck("_infer_expr", <<GetOr(tc, "expect", JNull), EmptyMap,
                                         base \o <<"expect">>, module, fr.counter>>)
                    IN [st EXCEPT !.counter = x.counter,
                                  !.issues = @ \o a.issues
                                      \o Flatten([j \in 1..n |->
                                             IF U[j].ok THEN <<>>
                                             ELSE <<SemIssue(base \o <<"args", IdxStr(j - 1)>>,
                                                             "TypeMismatch", "error")>>])
                                      \o x.issues
                                      \o (IF Typecheck("unify", <<_apply(inst.ret, U[n].subst), x.t, U[n].subst>>).ok
                                          THEN <<>>
                                          ELSE <<SemIssue(base \o <<"expect">>,
                                                          "TypeMismatch", "error")>>)]

\* module.get("tests", []) or []
Tests(module) ==
    LET ts == GetOr(module, "tests", JArr(<<>>))
    IN IF Truthy(ts) THEN ts.vs ELSE <<>>

\* typecheck.check_module(module): the issue list
typecheck_check_module(module) ==
    LET fs == Functions(module)
        ts == Tests(module)
        F[j \in 0..Len(fs)] ==
            IF j = 0 THEN [issues |-> <<>>, counter |-> 0, ret_seen |-> <<>>]
            ELSE Typecheck("TypecheckFunction", <<module, fs[j], j - 1, F[j - 1]>>)
        T[j \in 0..Len(ts)] ==
            IF j = 0 THEN F[Len(fs)] ELSE Typecheck("TypecheckTest", <<module, ts[j], j - 1, T[j - 1]>>)
    IN T[Len(ts)].issues

Typecheck(op, a) ==
    CASE op = "unify" /\ Len(a) = 3 -> unify(a[1], a[2], a[3])
      [] op = "unify_fields" /\ Len(a) = 4 -> unify_fields(a[1], a[2], a[3], a[4])
      [] op = "SigOf" /\ Len(a) = 2 -> SigOf(a[1], a[2])
      [] op = "SigLookup" /\ Len(a) = 3 -> SigLookup(a[1], a[2], a[3])
      [] op = "_freshen" /\ Len(a) = 2 -> _freshen(a[1], a[2])
      [] op = "_infer_special_call" /\ Len(a) = 6 -> _infer_special_call(a[1], a[2], a[3], a[4], a[5], a[6])
      [] op = "infer_each" /\ Len(a) = 6 -> infer_each(a[1], a[2], a[3], a[4], a[5], a[6])
      [] op = "_infer_expr" /\ Len(a) = 5 -> _infer_expr(a[1], a[2], a[3], a[4], a[5])
      [] op = "check_from" /\ Len(a) = 8 -> check_from(a[1], a[2], a[3], a[4], a[5], a[6], a[7], a[8])
      [] op = "_check_block" /\ Len(a) = 6 -> _check_block(a[1], a[2], a[3], a[4], a[5], a[6])
      [] op = "_check_stmt" /\ Len(a) = 6 -> _check_stmt(a[1], a[2], a[3], a[4], a[5], a[6])
      [] op = "TypecheckFunction" /\ Len(a) = 4 -> TypecheckFunction(a[1], a[2], a[3], a[4])
      [] op = "TypecheckTest" /\ Len(a) = 4 -> TypecheckTest(a[1], a[2], a[3], a[4])
      [] op = "check_module" /\ Len(a) = 1 -> typecheck_check_module(a[1])

(***************************************************************************)
(* repair_suggest.py: the deterministic repair suggester                   *)
(***************************************************************************)
\* sorted() on effect tags: their alphabetical rank
EffectTags == <<"io.print", "net.http", "pure">>
SortedTags(set) == SelectSeq(EffectTags, LAMBDA t : t \in set)

\* [p for p in ptr.strip("/").split("/") if p]
PointerParts(pointer) == SelectSeq(pointer, LAMBDA p : p # "")
Dedupe(seq) ==
    LET F[i \in 0..Len(seq)] ==
            IF i = 0 THEN <<>>
            ELSE IF seq[i] \in Range(F[i - 1]) THEN F[i - 1] ELSE Append(F[i - 1], seq[i])
    IN F[Len(seq)]
\* eff.index("pure")
IndexOf(seq, v) == (CHOOSE i \in 1..Len(seq) : seq[i] = v /\ \A j \in 1..(i - 1) : seq[j] # v) - 1

\* RepairSuggest(op, a) is a call by name made from repair_suggest.py, a the
\* argument tuple.
RECURSIVE RepairSuggest(_, _)
suggest_patches(module, issues) ==
    LET need_effects_map == \E i \in 1..Len(issues) : issues[i].code = "MissingEffect"
        effects_map == IF need_effects_map
                       THEN RepairSuggest("compute_transitive_effects", <<module>>).memo
                       ELSE EmptyMap
        fns == Functions(module)
        onFunction(parts, n) ==
            Len(parts) >= n /\ parts[1] = "functions" /\ IsDigitSeg(parts[2])
            /\ (n < 3 \/ parts[3] = "effects")
        missingReturn(it, i) ==
            LET parts == PointerParts(it.pointer)
            IN IF it.code = "MissingReturn" /\ onFunction(parts, 2)
               THEN <<PatchOpV("add", <<"functions", parts[2], "body", "-">>,
                               JObj(<<"return">>, <<JNull>>))>>
               ELSE <<>>
        notPure(it, i) ==
            LET parts == PointerParts(it.pointer)
            IN IF it.code = "NotPure" /\ onFunction(parts, 3)
               THEN LET fn == fns[SegInt(parts[2]) + 1]
                        eff == IF IsDict(fn) THEN GetOr(fn, "effects", JArr(<<>>)) ELSE JArr(<<>>)
                    IN IF IsList(eff) /\ JStr("pure") \in Range(eff.vs) /\ Len(eff.vs) > 1
                       THEN <<PatchOp("remove", <<"functions", parts[2], "effects",
                                                   IdxStr(IndexOf(eff.vs, JStr("pure")))>>)>>
                       ELSE <<>>
               ELSE <<>>
        missingEffect(it, i) ==
            LET parts == PointerParts(it.pointer)
            IN IF it.code = "MissingEffect" /\ onFunction(parts, 3)
               THEN LET fn == fns[SegInt(parts[2]) + 1]
                    IN IF ~HasName(fn) THEN <<>>
                       ELSE LET name == Get(fn, "name").s
                                required == IF name \in DOMAIN effects_map
                                            THEN effects_map[name] ELSE {}
                                declared_list == IF IsList(GetOr(fn, "effects", JArr(<<>>)))
                                                 THEN GetOr(fn, "effects", JArr(<<>>)).vs
                                                 ELSE <<>>
                                declared == IF Len(declared_list) = 0 THEN <<JStr("pure")>>
                                            ELSE declared_list
                                missing == required \ {t.s : t \in Range(declared)}
                                new_eff == declared \o [j \in 1..Len(SortedTags(missing)) |->
                                                           JStr(SortedTags(missing)[j])]
                                dropped == IF JStr("pure") \in Range(new_eff) /\ Len(new_eff) > 1
                                           THEN SelectSeq(new_eff, LAMBDA e : e # JStr("pure"))
                                           ELSE new_eff
                            IN IF missing = {} THEN <<>>
                               ELSE <<PatchOpV("replace", <<"functions", parts[2], "effects">>,
                                               JArr(dropped))>>
               ELSE <<>>
    IN Dedupe(Flatten(SeqMap(missingReturn, issues))
              \o Flatten(SeqMap(notPure, issues))
              \o Flatten(SeqMap(missingEffect, issues)))

RepairSuggest(op, a) ==
    CASE op = "compute_transitive_effects" -> Effects("compute_transitive_effects", a)
      [] op = "suggest_patches" /\ Len(a) = 2 -> suggest_patches(a[1], a[2])

(***************************************************************************)
(* runtime_guarded.py and sandbox_ast.py: the effect gate, the builtins    *)
(* and the AST interpreter.  Runtime values are JSON values.  The world w  *)
(* carries the process-wide state a run reads and the trace it leaves:     *)
(*   allowed  : runtime_guarded._allowed_effects                           *)
(*   dispatch : the module whose functions the installed dispatcher calls  *)
(*              (JNull when _dispatch is None)                             *)
(*   net      : whether the network answers an http_get                    *)
(*   out      : the side effects performed, in order: [effect, value]      *)
(*   denied   : how many require() calls raised EffectError                *)
(*   fell     : the user functions of which a call ran off the end         *)
(*   undef    : the user functions in whose frame a variable was unbound   *)
(* A result is [st, val, env, w, fault]: st is "ok", "return" (a           *)
(* ReturnSignal in flight) or "fault" (any other exception, named by       *)
(* fault).                                                                 *)
(***************************************************************************)
MaxDepth == 3

Res(st, val, env, w, fault) == [st |-> st, val |-> val, env |-> env, w |-> w, fault |-> fault]
Ok(val, env, w) == Res("ok", val, env, w, "")
Fault(kind, env, w) == Res("fault", JNull, env, w, kind)

\* set_allowed_effects(effects)
set_allowed_effects(effects) == IF effects = {} THEN {"pure"} ELSE effects
\* a gate that lets every effect through
require_anything(effect, w) == TRUE
\* require(effect): TRUE when it returns, FALSE when it raises EffectError
require(effect, w) == effect \in w.allowed

\* Python's int view of a number or a bool; strings of the model are runs of
\* "a" of bounded length
IsNum(v) == v.k \in {"num", "bool"}
Strs == <<"", "a", "aa", "aaa", "aaaa", "aaaaa", "aaaaaa">>
StrLen(str) == (CHOOSE i \in 1..Len(Strs) : Strs[i] = str) - 1

\* a == b
RECURSIVE PyEq(_, _)
PyEq(a, b) ==
    IF IsNum(a) /\ IsNum(b) THEN a.n = b.n
    ELSE IF IsList(a) /\ IsList(b)
    THEN Len(a.vs) = Len(b.vs) /\ \A i \in 1..Len(a.vs) : PyEq(a.vs[i], b.vs[i])
    ELSE IF IsDict(a) /\ IsDict(b)
    THEN Range(a.ks) = Range(b.ks) /\ \A k \in Range(a.ks) : PyEq(Get(a, k), Get(b, k))
    ELSE a = b

\* What a builtin's Python body does: [ok, val, err]; ok = FALSE is the
\* exception err.
Done(val) == [ok |-> TRUE, val |-> val, err |-> ""]
Raise(err) == [ok |-> FALSE, val |-> JNull, err |-> err]

\* a + b; a string longer than the longest of Strs does not fit in memory
add(a, b) ==
    IF IsNum(a) /\ IsNum(b) THEN Done(JNum(a.n + b.n))
    ELSE IF IsStr(a) /\ IsStr(b)
    THEN IF a.s \in Range(Strs) /\ b.s \in Range(Strs)
            /\ StrLen(a.s) + StrLen(b.s) < Len(Strs)
         THEN Done(JStr(Strs[StrLen(a.s) + StrLen(b.s) + 1]))
         ELSE Raise("MemoryError")
    ELSE IF IsList(a) /\ IsList(b) THEN Done(JArr(a.vs \o b.vs))
    ELSE Raise("TypeError")

\* a < b
RECURSIVE lt(_, _)
lt(a, b) ==
    LET yes(x) == Done(IF x THEN JTrue ELSE JFalse)
        no == Raise("TypeError")
    IN IF IsNum(a) /\ IsNum(b) THEN yes(a.n < b.n)
       ELSE IF IsStr(a) /\ IsStr(b) /\ a.s \in Range(Strs) /\ b.s \in Range(Strs)
       THEN yes(StrLen(a.s) < StrLen(b.s))
       ELSE IF IsList(a) /\ IsList(b)
       THEN LET n == IF Len(a.vs) < Len(b.vs) THEN Len(a.vs) ELSE Len(b.vs)
                diff == {i \in 1..n : ~PyEq(a.vs[i], b.vs[i])}
            IN IF diff = {} THEN yes(Len(a.vs) < Len(b.vs))
               ELSE lt(a.vs[CHOOSE i \in diff : \A j \in diff : i <= j],
                       b.vs[CHOOSE i \in diff : \A j \in diff : i <= j])
       ELSE no

\* len(xs)
length(xs) ==
    IF IsList(xs) \/ IsDict(xs) THEN Done(JNum(Len(xs.vs)))
    ELSE IF IsStr(xs) /\ xs.s \in Range(Strs) THEN Done(JNum(StrLen(xs.s)))
    ELSE Raise("TypeError")

\* a >= b: defined, and raising, where a < b is; the orders are total
gte(a, b) ==
    LET below == lt(a, b)
    IN IF below.ok THEN Done(IF below.val = JTrue THEN JFalse ELSE JTrue) ELSE below

\* sum(xs): 0 + xs[0] + xs[1] + ...
RECURSIVE SumFrom(_, _)
SumFrom(vs, i) == IF i > Len(vs) THEN 0 ELSE vs[i].n + SumFrom(vs, i + 1)
list_sum(xs) ==
    IF IsList(xs) /\ \A i \in 1..Len(xs.vs) : IsNum(xs.vs[i]) THEN Done(JNum(SumFrom(xs.vs, 1)))
    ELSE Raise("TypeError")

\* The builtins the modules of the model call; the interpreter is exact on them.
RunBuiltins ==
    {"add", "lt", "gte", "eq", "not", "len", "list_sum", "list_map", "print", "http_get"}

\* The interpreter's functions and the builtins call one another by name;
\* Interp(op, a) is that call, a the argument tuple.
RECURSIVE Interp(_, _)

\* _dispatch(fn_name, dargs) as run_module installs it, over the functions of
\* the module the dispatcher was built for
dispatch(fn_name, dargs, depth, w) ==
    LET name == _qual_last(fn_name)
    IN IF name \in BuiltinNames THEN Interp("call_builtin", <<name, dargs, depth, w>>)
       ELSE IF name \notin UserNames(w.dispatch) THEN Fault("SandboxError", EmptyMap, w)
       ELSE Interp("call_user", <<name, dargs, w.dispatch, depth, w>>)

\* the loop of list_map: disp(fn, [x]) for the items from i on; val is the
\* list of the results
map_each(fn, xs, i, depth, w) ==
    IF i > Len(xs) THEN Ok(JArr(<<>>), EmptyMap, w)
    ELSE LET one == Interp("dispatch", <<fn, <<xs[i]>>, depth, w>>)
         IN IF one.st # "ok" THEN one
            ELSE LET rest == Interp("map_each", <<fn, xs, i + 1, depth, one.w>>)
                 IN IF rest.st # "ok" THEN rest
                    ELSE Ok(JArr(<<one.val>> \o rest.val.vs), EmptyMap, rest.w)

\* call_builtin(name, args): BUILTINS[name](*args)
call_builtin(name, args, depth, w) ==
    LET pure(r) == IF r.ok THEN Ok(r.val, EmptyMap, w) ELSE Fault(r.err, EmptyMap, w)
    IN IF name \notin RunBuiltins THEN Fault("Unmodelled", EmptyMap, w)
       ELSE IF Len(args) # BUILTIN_ARITY[name] THEN Fault("TypeError", EmptyMap, w)
       ELSE CASE name = "add" -> pure(add(args[1], args[2]))
              [] name = "lt" -> pure(lt(args[1], args[2]))
              [] name = "eq" -> pure(Done(IF PyEq(args[1], args[2]) THEN JTrue ELSE JFalse))
              [] name = "not" -> pure(Done(IF Truthy(args[1]) THEN JFalse ELSE JTrue))
              [] name = "len" -> pure(length(args[1]))
              [] name = "gte" -> pure(gte(args[1], args[2]))
              [] name = "list_sum" -> pure(list_sum(args[1]))
              [] name = "list_map" ->
                 IF IsNone(w.dispatch) THEN Fault("RuntimeError", EmptyMap, w)
                 ELSE IF IsList(args[2]) /\ IsStr(args[1])
                 THEN Interp("map_each", <<args[1].s, args[2].vs, 1, depth, w>>)
                 ELSE IF IsList(args[2]) /\ Len(args[2].vs) = 0 THEN Ok(JArr(<<>>), EmptyMap, w)
                 ELSE Fault("TypeError", EmptyMap, w)
              [] name = "print" ->
                 IF ~require("io.print", w)
                 THEN Fault("EffectError", EmptyMap, [w EXCEPT !.denied = @ + 1])
                 ELSE Ok(JNull, EmptyMap,
                         [w EXCEPT !.out = Append(@, [effect |-> "io.print", value |-> args[1]])])
              [] OTHER ->
                 IF ~require("net.http", w)
                 THEN Fault("EffectError", EmptyMap, [w EXCEPT !.denied = @ + 1])
                 ELSE LET w1 == [w EXCEPT !.out = Append(@, [effect |-> "net.http",
                                                             value |-> args[1]])]
                      IN IF w.net THEN Ok(JStr("a"), EmptyMap, w1)
                         ELSE Fault("URLError", EmptyMap, w1)

\* [eval_expr(x, env, fns) for x in exprs] from item i on; val is the list
eval_each(exprs, i, env, module, frame, depth, w) ==
    IF i > Len(exprs) THEN Ok(JArr(<<>>), env, w)
    ELSE LET one == Interp("eval_expr", <<exprs[i], env, module, frame, depth, w>>)
         IN IF one.st # "ok" THEN one
            ELSE LET rest == Interp("eval_each", <<exprs, i + 1, env, module, frame, depth, one.w>>)
                 IN IF rest.st # "ok" THEN rest
                    ELSE Ok(JArr(<<one.val>> \o rest.val.vs), env, rest.w)

\* eval_expr(expr, env, fns) in the frame of user function `frame`
eval_expr(expr, env, module, frame, depth, w) ==
    IF IsLiteral(expr) THEN Ok(expr, env, w)
    ELSE IF ~IsDict(expr) THEN Fault("SandboxError", env, w)
    ELSE IF Has(expr, "var")
    THEN LET name == Get(expr, "var")
         IN IF ~IsStr(name) THEN Fault("TypeError", env, w)
            ELSE IF name.s \notin DOMAIN env
            THEN Fault("UndefinedVariable", env, [w EXCEPT !.undef = @ \cup {frame}])
            ELSE Ok(env[name.s], env, w)
    ELSE IF Has(expr, "list")
    THEN IF ~IsList(Get(expr, "list")) THEN Fault("TypeError", env, w)
         ELSE Interp("eval_each", <<Get(expr, "list").vs, 1, env, module, frame, depth, w>>)
    ELSE IF Has(expr, "obj")
    THEN IF ~IsDict(Get(expr, "obj")) THEN Fault("AttributeError", env, w)
         ELSE LET r == Interp("eval_each", <<Get(expr, "obj").vs, 1, env, module, frame, depth, w>>)
              IN IF r.st # "ok" THEN r ELSE Ok(JObj(Get(expr, "obj").ks, r.val.vs), env, r.w)
    ELSE IF Has(expr, "call")
    THEN LET call == Get(expr, "call")
         IN IF ~IsDict(call) \/ ~Has(call, "fn") THEN Fault("KeyError", env, w)
            ELSE IF ~IsStr(Get(call, "fn")) \/ ~IsList(GetOr(call, "args", JArr(<<>>)))
            THEN Fault("TypeError", env, w)
            ELSE LET fn == _qual_last(Get(call, "fn").s)
                     args == Interp("eval_each", <<GetOr(call, "args", JArr(<<>>)).vs, 1,
                                       env, module, frame, depth, w>>)
                 IN IF args.st # "ok" THEN args
                    ELSE LET r == IF fn \in BuiltinNames
                                  THEN Interp("call_builtin", <<fn, args.val.vs, depth, args.w>>)
                                  ELSE IF fn \notin UserNames(module)
                                  THEN Fault("SandboxError", env, args.w)
                                  ELSE Interp("call_user", <<fn, args.val.vs, module, depth, args.w>>)
                         IN [r EXCEPT !.env = env]
    ELSE Fault("SandboxError", env, w)

\* a loop over the statements that goes on after a return
exec_block_past_return(stmts, i, env, module, frame, depth, w) ==
    IF i > Len(stmts) THEN Ok(JNull, env, w)
    ELSE LET one == Interp("exec_stmt", <<stmts[i], env, module, frame, depth, w>>)
         IN IF one.st = "fault" THEN one
            ELSE Interp("exec_block", <<stmts, i + 1, one.env, module, frame, depth, one.w>>)

\* for s in stmts: exec_stmt(s, env, fns), from statement i on
exec_block(stmts, i, env, module, frame, depth, w) ==
    IF i > Len(stmts) THEN Ok(JNull, env, w)
    ELSE LET one == Interp("exec_stmt", <<stmts[i], env, module, frame, depth, w>>)
         IN IF one.st # "ok" THEN one
            ELSE Interp("exec_block", <<stmts, i + 1, one.env, module, frame, depth, one.w>>)

\* exec_stmt(stmt, env, fns): st = "return" is the ReturnSignal it raises
exec_stmt(stmt, env, module, frame, depth, w) ==
    IF ~IsDict(stmt) \/ Len(stmt.ks) # 1 THEN Fault("SandboxError", env, w)
    ELSE LET tag == stmt.ks[1]
             spec == stmt.vs[1]
             ev(e) == Interp("eval_expr", <<e, env, module, frame, depth, w>>)
         IN CASE tag = "let" ->
                 IF ~IsDict(spec) \/ ~Has(spec, "name") \/ ~IsStr(GetOr(spec, "name", JNull))
                 THEN Fault("TypeError", env, w)
                 ELSE LET r == ev(GetOr(spec, "expr", JNull))
                      IN IF r.st # "ok" THEN r
                         ELSE Ok(JNull, Put(env, Get(spec, "name").s, r.val), r.w)
              [] tag = "expr" ->
                 LET r == ev(spec) IN IF r.st # "ok" THEN r ELSE Ok(JNull, env, r.w)
              [] tag = "assert" ->
                 IF ~IsDict(spec) THEN Fault("AttributeError", env, w)
                 ELSE LET r == ev(GetOr(spec, "expr", JNull))
                      IN IF r.st # "ok" THEN r
                         ELSE IF ~Truthy(r.val) THEN Fault("AssertionError", env, r.w)
                         ELSE Ok(JNull, env, r.w)
              [] tag = "return" ->
                 LET r == ev(spec) IN IF r.st # "ok" THEN r ELSE Res("return", r.val, env, r.w, "")
              [] tag = "if" ->
                 IF ~IsDict(spec) THEN Fault("AttributeError", env, w)
                 ELSE LET r == ev(GetOr(spec, "cond", JNull))
                          block == IF Truthy(r.val) THEN GetOr(spec, "then", JArr(<<>>))
                                   ELSE GetOr(spec, "else", JArr(<<>>))
                      IN IF r.st # "ok" THEN r
                         ELSE IF ~IsList(block) THEN Fault("TypeError", env, r.w)
                         ELSE Interp("exec_block", <<block.vs, 1, env, module, frame, depth, r.w>>)
              [] OTHER -> Fault("SandboxError", env, w)

\* call_user(fn_name, args, fns); a call nested deeper than MaxDepth is
\* Python's RecursionError
call_user(fn_name, args, module, depth, w) ==
    LET fn == UserFunc(module, fn_name)
        params == Params(fn).vs
        env == [p \in {params[j].s : j \in 1..Len(params)} |->
                   args[CHOOSE j \in 1..Len(params) :
                            params[j].s = p /\ \A m \in (j + 1)..Len(params) : params[m].s # p]]
    IN IF depth >= MaxDepth THEN Fault("RecursionError", EmptyMap, w)
       ELSE IF Len(params) # Len(args) THEN Fault("SandboxError", EmptyMap, w)
       ELSE LET r == Interp("exec_block", <<Body(fn), 1, env, module, fn_name, depth + 1, w>>)
            IN IF r.st = "return" THEN Ok(r.val, EmptyMap, r.w)
               ELSE IF r.st = "fault" THEN r
               ELSE Ok(JNull, EmptyMap, [r.w EXCEPT !.fell = @ \cup {fn_name}])

\* The world a run starts in.
World(allowed, dispatchModule, net) ==
    [allowed |-> allowed, dispatch |-> dispatchModule, net |-> net,
     out |-> <<>>, denied |-> 0, fell |-> {}, undef |-> {}]

\* run_module(module, fn, args, allowed_effects): the result, in whose world
\* allowed and dispatch are the process-wide state the run leaves behind
run_module(module, fn, args, allowed_effects, net) ==
    LET w == World(set_allowed_effects(allowed_effects), module, net)
        fn_last == _qual_last(fn)
    IN IF fn_last \notin UserNames(module) /\ fn_last \notin BuiltinNames
       THEN Fault("SandboxError", EmptyMap, w)
       ELSE IF fn_last \in BuiltinNames THEN Interp("call_builtin", <<fn_last, args, 0, w>>)
       ELSE Interp("call_user", <<fn_last, args, module, 0, w>>)

Interp(op, a) ==
    CASE op = "dispatch" /\ Len(a) = 4 -> dispatch(a[1], a[2], a[3], a[4])
      [] op = "map_each" /\ Len(a) = 5 -> map_each(a[1], a[2], a[3], a[4], a[5])
      [] op = "call_builtin" /\ Len(a) = 4 -> call_builtin(a[1], a[2], a[3], a[4])
      [] op = "eval_each" /\ Len(a) = 7 -> eval_each(a[1], a[2], a[3], a[4], a[5], a[6], a[7])
      [] op = "eval_expr" /\ Len(a) = 6 -> eval_expr(a[1], a[2], a[3], a[4], a[5], a[6])
      [] op = "exec_block" /\ Len(a) = 7 -> exec_block(a[1], a[2], a[3], a[4], a[5], a[6], a[7])
      [] op = "exec_stmt" /\ Len(a) = 6 -> exec_stmt(a[1], a[2], a[3], a[4], a[5], a[6])
      [] op = "call_user" /\ Len(a) = 5 -> call_user(a[1], a[2], a[3], a[4], a[5])
      [] op = "run_module" /\ Len(a) = 5 -> run_module(a[1], a[2], a[3], a[4], a[5])

(***************************************************************************)
(* fmt.py: the canonical formatter.  A JSON text is modelled by its        *)
(* sequence of tokens: json.dumps(indent=2) lays the same tokens out in    *)
(* the same bytes, so two of its outputs are equal bytes exactly when      *)
(* their tokens are equal.                                                 *)
(***************************************************************************)
MODULE_KEY_ORDER ==
    <<"module", "version", "imports", "externs", "functions", "tests", "properties", "metadata">>
FUNCTION_KEY_ORDER ==
    <<"name", "doc", "type_params", "params", "param_types", "returns", "effects",
      "requires", "ensures", "body", "tests", "properties">>
TEST_KEY_ORDER == <<"name", "fn", "args", "expect">>
PROPERTY_KEY_ORDER == <<"name", "fn", "strategy", "expect">>
IF_KEY_ORDER == <<"cond", "then", "else">>
LET_KEY_ORDER == <<"name", "expr">>
ASSERT_KEY_ORDER == <<"expr", "message">>
CALL_KEY_ORDER == <<"fn", "args">>

\* sorted() on the keys that occur in the model's documents: code-point order
SortedKeys ==
    <<"a", "args", "b", "body", "call", "cond", "doc", "effects", "else", "ensures",
      "expect", "expr", "externs", "fn", "functions", "if", "imports", "let", "list",
      "message", "metadata", "module", "name", "obj", "param_types", "params",
      "properties", "requires", "return", "returns", "strategy", "tests", "then",
      "type_params", "var", "version", "x", "y">>
sorted(keys) == SelectSeq(SortedKeys, LAMBDA k : k \in keys)

\* _ordered_dict(obj, preferred)
_ordered_dict(obj, preferred) ==
    LET first == SelectSeq(preferred, LAMBDA k : Has(obj, k))
        ks == first \o sorted(Range(obj.ks) \ Range(first))
    IN JObj(ks, [i \in 1..Len(ks) |-> Get(obj, ks[i])])

RECURSIVE canonicalize(_)
canonicalize(node) ==
    LET \* {k: canonicalize(v) for k, v in obj.items()}, without the None values
        \* when drop
        each(obj, drop) ==
            LET keep == SelectSeq(obj.ks, LAMBDA k : ~(drop /\ IsNone(Get(obj, k))))
            IN JObj(keep, [i \in 1..Len(keep) |-> canonicalize(Get(obj, keep[i]))])
        wrap(tag, v) == JObj(<<tag>>, <<v>>)
    IN IF IsList(node) THEN JArr([i \in 1..Len(node.vs) |-> canonicalize(node.vs[i])])
       ELSE IF ~IsDict(node) THEN node
       ELSE IF Has(node, "module") /\ Has(node, "functions")
       THEN each(_ordered_dict(node, MODULE_KEY_ORDER), FALSE)
       ELSE IF {"name", "params", "effects", "body"} \subseteq Range(node.ks)
       THEN each(_ordered_dict(node, FUNCTION_KEY_ORDER), TRUE)
       ELSE IF Has(node, "fn") /\ Has(node, "args") /\ Has(node, "expect") /\ ~Has(node, "strategy")
       THEN each(_ordered_dict(node, TEST_KEY_ORDER), TRUE)
       ELSE IF Has(node, "fn") /\ Has(node, "strategy") /\ Has(node, "expect")
       THEN each(_ordered_dict(node, PROPERTY_KEY_ORDER), TRUE)
       ELSE IF Len(node.ks) = 1 /\ node.ks[1] \in {"if", "let", "return", "assert", "expr"}
       THEN LET tag == node.ks[1]
                val == node.vs[1]
            IN IF tag = "if" /\ IsDict(val) THEN wrap("if", each(_ordered_dict(val, IF_KEY_ORDER), TRUE))
               ELSE IF tag = "let" /\ IsDict(val)
               THEN wrap("let", each(_ordered_dict(val, LET_KEY_ORDER), TRUE))
               ELSE IF tag = "assert" /\ IsDict(val)
               THEN wrap("assert", each(_ordered_dict(val, ASSERT_KEY_ORDER), TRUE))
               ELSE wrap(tag, canonicalize(val))
       ELSE IF Len(node.ks) = 1 /\ node.ks[1] \in {"call", "var", "list", "obj"}
       THEN LET tag == node.ks[1]
                val == node.vs[1]
            IN IF tag = "call" /\ IsDict(val)
               THEN wrap("call", each(_ordered_dict(val, CALL_KEY_ORDER), TRUE))
               ELSE IF tag = "obj" /\ IsDict(val)
               THEN wrap("obj", LET ks == sorted(Range(val.ks))
                                IN JObj(ks, [i \in 1..Len(ks) |-> canonicalize(Get(val, ks[i]))]))
               ELSE wrap(tag, canonicalize(val))
       ELSE each(_ordered_dict(node, <<>>), FALSE)

\* tokens: punctuation, or a scalar (a string, a number, true, false, null)
Tok(t) == [t |-> t, v |-> JNull]
Lit(v) == [t |-> "lit", v |-> v]
\* whitespace between the tokens: "\n" and "\r" (spaces and tabs are not
\* represented)
NL == Tok("nl")
CR == Tok("cr")
IsWs(tok) == tok.t \in {"nl", "cr"}

\* json.dumps(value): the tokens of the text, on one line
RECURSIVE json_dumps(_)
json_dumps(v) ==
    LET sep(items) == Flatten([i \in 1..Len(items) |->
                          (IF i > 1 THEN <<Tok(",")>> ELSE <<>>) \o items[i]])
    IN IF IsList(v)
       THEN <<Tok("[")>> \o sep([i \in 1..Len(v.vs) |-> json_dumps(v.vs[i])]) \o <<Tok("]")>>
       ELSE IF IsDict(v)
       THEN <<Tok("{")>>
            \o sep([i \in 1..Len(v.vs) |-> <<Lit(JStr(v.ks[i])), Tok(":")>> \o json_dumps(v.vs[i])])
            \o <<Tok("}")>>
       ELSE <<Lit(v)>>

\* json.dumps(value, indent=2): every item and member on a line of its own
RECURSIVE json_dumps_indent(_)
json_dumps_indent(v) ==
    LET lines(items) == Flatten([i \in 1..Len(items) |->
                            (IF i > 1 THEN <<Tok(","), NL>> ELSE <<NL>>) \o items[i]]) \o <<NL>>
    IN IF IsList(v)
       THEN IF Len(v.vs) = 0 THEN <<Tok("["), Tok("]")>>
            ELSE <<Tok("[")>> \o lines([i \in 1..Len(v.vs) |-> json_dumps_indent(v.vs[i])])
                 \o <<Tok("]")>>
       ELSE IF IsDict(v)
       THEN IF Len(v.vs) = 0 THEN <<Tok("{"), Tok("}")>>
            ELSE <<Tok("{")>>
                 \o lines([i \in 1..Len(v.vs) |->
                              <<Lit(JStr(v.ks[i])), Tok(":")>> \o json_dumps_indent(v.vs[i])])
                 \o <<Tok("}")>>
       ELSE <<Lit(v)>>

\* json.loads(text): [ok, val, next] for the value that starts at token i;
\* ok = FALSE is the JSONDecodeError.  A repeated key keeps its first place
\* and its last value, as a Python dict does.
RECURSIVE json_value(_, _), json_items(_, _, _), json_members(_, _, _)
json_value(toks, i) ==
    LET bad == [ok |-> FALSE, val |-> JNull, next |-> i]
    IN IF i > Len(toks) THEN bad
       ELSE IF toks[i].t = "lit" THEN [ok |-> TRUE, val |-> toks[i].v, next |-> i + 1]
       ELSE IF toks[i].t = "["
       THEN IF i + 1 <= Len(toks) /\ toks[i + 1].t = "]"
            THEN [ok |-> TRUE, val |-> JArr(<<>>), next |-> i + 2]
            ELSE json_items(toks, i + 1, JArr(<<>>))
       ELSE IF toks[i].t = "{"
       THEN IF i + 1 <= Len(toks) /\ toks[i + 1].t = "}"
            THEN [ok |-> TRUE, val |-> JObj(<<>>, <<>>), next |-> i + 2]
            ELSE json_members(toks, i + 1, JObj(<<>>, <<>>))
       ELSE bad
json_items(toks, i, acc) ==
    LET one == json_value(toks, i)
        bad == [ok |-> FALSE, val |-> JNull, next |-> i]
    IN IF ~one.ok \/ one.next > Len(toks) THEN bad
       ELSE IF toks[one.next].t = "]"
       THEN [ok |-> TRUE, val |-> JArr(Append(acc.vs, one.val)), next |-> one.next + 1]
       ELSE IF toks[one.next].t = ","
       THEN json_items(toks, one.next + 1, JArr(Append(acc.vs, one.val)))
       ELSE bad
json_members(toks, i, acc) ==
    LET bad == [ok |-> FALSE, val |-> JNull, next |-> i]
    IN IF i + 1 > Len(toks) \/ toks[i].t # "lit" \/ ~IsStr(toks[i].v) \/ toks[i + 1].t # ":"
       THEN bad
       ELSE LET one == json_value(toks, i + 2)
            IN IF ~one.ok \/ one.next > Len(toks) THEN bad
               ELSE IF toks[one.next].t = "}"
               THEN [ok |-> TRUE, val |-> DictSet(acc, toks[i].v.s, one.val), next |-> one.next + 1]
               ELSE IF toks[one.next].t = ","
               THEN json_members(toks, one.next + 1, DictSet(acc, toks[i].v.s, one.val))
               ELSE bad
\* whitespace between the tokens is skipped
json_loads(text) ==
    LET toks == SelectSeq(text, LAMBDA tok : ~IsWs(tok))
        r == json_value(toks, 1)
    IN IF r.ok /\ r.next = Len(toks) + 1 THEN [ok |-> TRUE, val |-> r.val]
       ELSE [ok |-> FALSE, val |-> JNull]

\* dumps_canonical(ast): json.dumps(canon, indent=2) + "\n"
dumps_canonical(ast) == json_dumps_indent(canonicalize(ast)) \o <<NL>>

(***************************************************************************)
(* jsonpos.py: the position-aware parser and the text index.  An index is  *)
(* a count of tokens from the start of the text (0-based, as a Python      *)
(* string index); a token counts as one code point.  Spaces and tabs are   *)
(* not represented; "\n" and "\r" are, because lines and positions depend  *)
(* on them.                                                                *)
(***************************************************************************)
Peek(text, i) == IF i < Len(text) THEN text[i + 1].t ELSE ""
RECURSIVE _skip_ws(_, _)
_skip_ws(text, i) == IF i < Len(text) /\ IsWs(text[i + 1]) THEN _skip_ws(text, i + 1) ELSE i

\* The parser's state: [ok, val, i, spans, pair_spans]; ok = FALSE is a
\* JsonPosError at index i.  spans and pair_spans map pointers to <<start, end>>.
Parser0 == [ok |-> TRUE, val |-> JNull, i |-> 0, spans |-> EmptyMap, pair_spans |-> EmptyMap]
JsonPosError(p, index) == [p EXCEPT !.ok = FALSE, !.i = index]

\* Jsonpos(op, a) is a call by name made from jsonpos.py, a the argument tuple.
RECURSIVE Jsonpos(_, _)
_parse_value(text, ptr, p) ==
    LET start == _skip_ws(text, p.i)
        ch == Peek(text, start)
    IN IF ch = "{" THEN Jsonpos("_parse_object", <<text, ptr, start, p>>)
       ELSE IF ch = "[" THEN Jsonpos("_parse_array", <<text, ptr, start, p>>)
       ELSE IF ch = "lit"
       THEN [p EXCEPT !.val = text[start + 1].v, !.i = start + 1,
                      !.spans = Put(p.spans, ptr, <<start, start + 1>>)]
       ELSE JsonPosError(p, start)

\* the members of an object from index p.i on, obj the dict so far
object_members(text, ptr, start, p, obj) ==
    LET key_start == _skip_ws(text, p.i)
    IN IF ~(Peek(text, key_start) = "lit" /\ IsStr(text[key_start + 1].v))
       THEN JsonPosError(p, key_start)
       ELSE LET key == text[key_start + 1].v.s
                colon == _skip_ws(text, key_start + 1)
                child_ptr == Append(ptr, escape_segment(key))
            IN IF Peek(text, colon) # ":" THEN JsonPosError(p, colon)
               ELSE LET r == Jsonpos("_parse_value", <<text, child_ptr, [p EXCEPT !.i = colon + 1]>>)
                    IN IF ~r.ok THEN r
                       ELSE LET pairs == Put(r.pair_spans, child_ptr,
                                             <<key_start, r.spans[child_ptr][2]>>)
                                next == _skip_ws(text, r.i)
                                ended == DictSet(obj, key, r.val)
                            IN IF Peek(text, next) = "}"
                               THEN [r EXCEPT !.val = ended, !.i = next + 1, !.pair_spans = pairs,
                                              !.spans = Put(r.spans, ptr, <<start, next + 1>>)]
                               ELSE IF Peek(text, next) = ","
                               THEN Jsonpos("object_members",
                                            <<text, ptr, start,
                                              [r EXCEPT !.i = next + 1, !.pair_spans = pairs], ended>>)
                               ELSE JsonPosError(r, next)
_parse_object(text, ptr, start, p) ==
    LET first == _skip_ws(text, start + 1)
    IN IF Peek(text, first) = "}"
       THEN [p EXCEPT !.val = JObj(<<>>, <<>>), !.i = first + 1,
                      !.spans = Put(p.spans, ptr, <<start, first + 1>>)]
       ELSE Jsonpos("object_members", <<text, ptr, start, [p EXCEPT !.i = first], JObj(<<>>, <<>>)>>)

\* the items of an array from index p.i on, arr the list so far
array_items(text, ptr, start, p, arr) ==
    LET child_ptr == Append(ptr, IdxStr(Len(arr)))
        r == Jsonpos("_parse_value", <<text, child_ptr, p>>)
    IN IF ~r.ok THEN r
       ELSE LET next == _skip_ws(text, r.i)
                ended == Append(arr, r.val)
            IN IF Peek(text, next) = "]"
               THEN [r EXCEPT !.val = JArr(ended), !.i = next + 1,
                              !.spans = Put(r.spans, ptr, <<start, next + 1>>)]
               ELSE IF Peek(text, next) = ","
               THEN Jsonpos("array_items", <<text, ptr, start, [r EXCEPT !.i = next + 1], ended>>)
               ELSE JsonPosError(r, next)
_parse_array(text, ptr, start, p) ==
    LET first == _skip_ws(text, start + 1)
    IN IF Peek(text, first) = "]"
       THEN [p EXCEPT !.val = JArr(<<>>), !.i = first + 1,
                      !.spans = Put(p.spans, ptr, <<start, first + 1>>)]
       ELSE Jsonpos("array_items", <<text, ptr, start, [p EXCEPT !.i = first], <<>>>>)

\* parse_with_positions(text): _Parser(text).parse() with its spans
parse_with_positions(text) ==
    LET r == Jsonpos("_parse_value", <<text, <<>>, Parser0>>)
    IN IF ~r.ok THEN r
       ELSE IF _skip_ws(text, r.i) # Len(text) THEN JsonPosError(r, _skip_ws(text, r.i))
       ELSE r

Jsonpos(op, a) ==
    CASE op = "_parse_value" /\ Len(a) = 3 -> _parse_value(a[1], a[2], a[3])
      [] op = "_parse_object" /\ Len(a) = 4 -> _parse_object(a[1], a[2], a[3], a[4])
      [] op = "object_members" /\ Len(a) = 5 -> object_members(a[1], a[2], a[3], a[4], a[5])
      [] op = "_parse_array" /\ Len(a) = 4 -> _parse_array(a[1], a[2], a[3], a[4])
      [] op = "array_items" /\ Len(a) = 5 -> array_items(a[1], a[2], a[3], a[4], a[5])
      [] op = "parse_with_positions" /\ Len(a) = 1 -> parse_with_positions(a[1])

\* len(ch.encode("utf-16-le")) // 2 summed over a piece of text: the string
\* Astral holds a character outside the basic plane, which is one code point
\* and two UTF-16 code units
Astral == "w"
Utf16Units(toks) ==
    Len(toks) + Cardinality({i \in 1..Len(toks) : toks[i] = Lit(JStr(Astral))})

\* TextIndex(text).starts and .ends
TextIndexStarts(text) == <<0>> \o SelectSeq([i \in 1..Len(text) |-> i], LAMBDA i : text[i] = NL)
TextIndexEnd(text, s) ==
    IF \E j \in (s + 1)..Len(text) : text[j] = NL
    THEN (CHOOSE j \in (s + 1)..Len(text) :
              text[j] = NL /\ \A h \in (s + 1)..(j - 1) : text[h] # NL) - 1
    ELSE Len(text)
\* TextIndex._find_line(index): the last line that starts at or before index
_find_line(text, index) ==
    LET starts == TextIndexStarts(text)
    IN (CHOOSE lo \in 1..Len(starts) :
           /\ (starts[lo] <= index \/ lo = 1)
           /\ \A h \in (lo + 1)..Len(starts) : starts[h] > index) - 1
Position(line, character) == [line |-> line, character |-> character]
\* TextIndex.position(index)
position(text, index0) ==
    LET index == IF index0 < 0 THEN 0 ELSE IF index0 > Len(text) THEN Len(text) ELSE index0
        line == _find_line(text, index)
        start == TextIndexStarts(text)[line + 1]
        line_text == SubSeq(text, start + 1, TextIndexEnd(text, start))
        col_cp == index - start
    IN Position(line, Utf16Units(SubSeq(line_text, 1, col_cp)))
\* the loop of TextIndex.offset: the code points of line_text taken while the
\* units stay within character_utf16
offset_cp_in_codepoints(line_text, units, character_utf16) ==
    IF character_utf16 < Len(line_text) THEN character_utf16 ELSE Len(line_text)
offset_cp(line_text, units, character_utf16) ==
    Cardinality({cp \in 1..Len(line_text) :
                    units + Utf16Units(SubSeq(line_text, 1, cp)) <= character_utf16})
\* TextIndex.offset(line, character_utf16)
offset(text, line0, character0) ==
    LET starts == TextIndexStarts(text)
        line == IF line0 < 0 THEN 0 ELSE IF line0 >= Len(starts) THEN Len(starts) - 1 ELSE line0
        character_utf16 == IF character0 < 0 THEN 0 ELSE character0
        line_start == starts[line + 1]
        line_text == SubSeq(text, line_start + 1, TextIndexEnd(text, line_start))
    IN line_start + offset_cp(line_text, 0, character_utf16)
\* TextIndex.range(span)
range(text, span) == [start |-> position(text, span[1]), end |-> position(text, span[2])]


(***************************************************************************)
(* repair_loop.py: collect_issues and the repair loop                      *)
(***************************************************************************)
\* fmt.validate(module, schema): the bundled schema document is not among the
\* sources; the documents of the model are built to the shapes it accepts.
validate(ast) == <<>>

\* The order of issues.sort(key = (severity, code, pointer)): code-point order
\* of the severities, codes and pointer segments that occur.
SortedCodes ==
    <<"ArityMismatch", "InvalidBody", "InvalidCall", "InvalidExpr", "InvalidStmt",
      "MissingEffect", "MissingReturn", "NotPure", "Rebind", "ReservedName",
      "ReturnTypeMismatch", "SchemaError", "TestArityMismatch", "TypeError", "TypeMismatch",
      "UndefinedVariable", "UnknownExpr", "UnknownFunctionCall", "UnknownFunctionRef",
      "UnknownStmt", "UnreachableStatement">>
SortedSegs == <<"-">> \o Digits \o SortedKeys
RankIn(seq, x) == CHOOSE i \in 1..Len(seq) : seq[i] = x
RECURSIVE PointerLess(_, _)
PointerLess(p, q) ==
    IF Len(q) = 0 THEN FALSE
    ELSE IF Len(p) = 0 THEN TRUE
    ELSE IF Head(p) = Head(q) THEN PointerLess(Tail(p), Tail(q))
    ELSE RankIn(SortedSegs, Head(p)) < RankIn(SortedSegs, Head(q))
IssueLess(a, b) ==
    IF a.severity # b.severity THEN a.severity = "error"
    ELSE IF a.code # b.code THEN RankIn(SortedCodes, a.code) < RankIn(SortedCodes, b.code)
    ELSE PointerLess(a.pointer, b.pointer)
\* list.sort: stable
SortIssues(seq) ==
    LET insert(acc, x) ==
            LET n == Cardinality({i \in 1..Len(acc) : ~IssueLess(x, acc[i])})
            IN InsertAt(acc, n + 1, x)
        F[i \in 0..Len(seq)] == IF i = 0 THEN <<>> ELSE insert(F[i - 1], seq[i])
    IN F[Len(seq)]

\* collect_issues(module); the modules of the model carry no tests, for which
\* test_runner.run_tests returns []
collect_issues(module) ==
    SortIssues(validate(module) \o Semantic("check_module", <<module>>)
               \o Typecheck("check_module", <<module>>)
               \o Effects("check_effects", <<module>>))

HasErrors(issues) == \E i \in 1..Len(issues) : issues[i].severity = "error"

(***************************************************************************)
(* lsp_server.py: ranges, text edits and the minimal edits of a patch      *)
(***************************************************************************)
\* str.splitlines(): "\n", "\r" and "\r\n" end a line
splitlines(text) ==
    LET \* where a line ending ends: at "\n", and at a "\r" that no "\n" follows
        ends == SelectSeq([i \in 1..Len(text) |-> i],
                          LAMBDA i : \/ text[i] = NL
                                     \/ (text[i] = CR /\ ~(i < Len(text) /\ text[i + 1] = NL)))
        from(k) == IF k = 1 THEN 1 ELSE ends[k - 1] + 1
        last_end == IF ends = <<>> THEN 0 ELSE ends[Len(ends)]
        ended == [k \in 1..Len(ends) |->
                     SelectSeq(SubSeq(text, from(k), ends[k]), LAMBDA tok : ~IsWs(tok))]
    IN IF last_end < Len(text) THEN Append(ended, SubSeq(text, last_end + 1, Len(text)))
       ELSE ended

\* _full_range(text)
_full_range(text) ==
    LET lines == IF splitlines(text) = <<>> THEN <<<<>>>> ELSE splitlines(text)
    IN [start |-> Position(0, 0),
        end |-> Position(Len(lines) - 1, Utf16Units(lines[Len(lines)]))]

\* _pos_lt(a, b) and _range_intersects(a, b)
_pos_lt(a, b) == IF a.line # b.line THEN a.line < b.line ELSE a.character < b.character
_range_intersects(a, b) == _pos_lt(a.start, b.end) /\ _pos_lt(b.start, a.end)

\* A text edit {range, newText}; _edit_insert and _edit_replace_span
TextEdit(rng, new_text) == [range |-> rng, newText |-> new_text]
_edit_insert(doc, index, new_text) ==
    TextEdit([start |-> position(doc.text, index), end |-> position(doc.text, index)], new_text)
_edit_replace_span(doc, span, new_text) == TextEdit(range(doc.text, span), new_text)

\* sorted(seq, key): the stable sort by LessEq on the keys
SortedBy(seq, LessEq(_, _)) ==
    LET rank(i) == Cardinality({j \in 1..Len(seq) :
                                   \/ ~LessEq(seq[i], seq[j])
                                   \/ (LessEq(seq[j], seq[i]) /\ j < i)}) + 1
    IN Tuple([r \in 1..Len(seq) |-> seq[CHOOSE i \in 1..Len(seq) : rank(i) = r]])

\* out[:s] + new_text + out[t:]
Splice(out, s, t, new_text) ==
    SubSeq(out, 1, s) \o new_text \o SubSeq(out, t + 1, Len(out))
RECURSIVE splice_all(_, _, _)
splice_all(out, spans, i) ==
    IF i > Len(spans) THEN out
    ELSE splice_all(Splice(out, spans[i].s, spans[i].t, spans[i].new_text), spans, i + 1)

\* _apply_text_edits_in_memory(text, edits): [ok, text]; ok = FALSE is the
\* ValueError("Overlapping edits")
_apply_text_edits_in_memory(text, edits) ==
    LET spans == [i \in 1..Len(edits) |->
                     [s |-> offset(text, edits[i].range.start.line, edits[i].range.start.character),
                      t |-> offset(text, edits[i].range.end.line, edits[i].range.end.character),
                      new_text |-> edits[i].newText]]
        spans_sorted == SortedBy(spans, LAMBDA x, y : x.s < y.s \/ (x.s = y.s /\ x.t <= y.t))
        descending == SortedBy(spans, LAMBDA x, y : x.s >= y.s)
    IN IF \E i \in 1..(Len(spans_sorted) - 1) : spans_sorted[i + 1].s < spans_sorted[i].t
       THEN [ok |-> FALSE, text |-> text]
       ELSE [ok |-> TRUE, text |-> splice_all(text, descending, 1)]

\* A Document after _parse_doc: its text, the parsed module and the spans
Document(text) ==
    LET r == Jsonpos("parse_with_positions", <<text>>)
    IN [text |-> text, ok |-> r.ok /\ IsDict(r.val), module |-> r.val,
        spans |-> r.spans, pair_spans |-> r.pair_spans]

\* The edits a synthesis returns: ok = FALSE is None; raised is an exception
\* that leaves the handler (the request is answered by an internal error)
NoEdits == [ok |-> FALSE, edits |-> <<>>, raised |-> FALSE]
Edits(edits) == [ok |-> TRUE, edits |-> edits, raised |-> FALSE]
Raised == [ok |-> FALSE, edits |-> <<>>, raised |-> TRUE]

\* the path of a patch operation, as a pointer
PathOf(op) == [i \in 1..Len(Get(op, "path").vs) |-> Get(op, "path").vs[i].s]
\* _ptr_child(parent, seg) and _ptr_child_escaped(parent, seg)
_ptr_child(parent, seg) == Append(parent, seg)
_ptr_child_escaped(parent, seg) == join_pointer(Append(split_pointer(parent), seg))
\* "\n" in doc.text[span[0]:span[1]]
Multiline(doc, span) == \E j \in (span[1] + 1)..span[2] : doc.text[j] = NL

\* replace_pointer(ptr, new_value) of _minimal_edits_for_single_patch, which
\* is also _replace_value_at_pointer(doc, ptr, new_value)
_replace_value_at_pointer(doc, ptr, new_value) ==
    IF ptr \notin DOMAIN doc.spans THEN NoEdits
    ELSE Edits(<<_edit_replace_span(doc, doc.spans[ptr], json_dumps_indent(new_value))>>)
\* delete_span(span)
delete_span(doc, span) == Edits(<<_edit_replace_span(doc, span, <<>>)>>)
\* _build_prop_block(prop_indent, key, value) and _build_prop_inline(key, value)
_build_prop_block(key, value) == <<Lit(JStr(key)), Tok(":")>> \o json_dumps_indent(value)
_build_prop_inline(key, value) == <<Lit(JStr(key)), Tok(":")>> \o json_dumps(value)

\* _minimal_edits_for_single_patch(doc, before, after, op): [ok, edits];
\* ok = FALSE is the result None
_minimal_edits_for_single_patch(doc, before, after, op) ==
    LET kind == Get(op, "op").s
        path == PathOf(op)
        segs == split_pointer(path)
        parent_ptr == join_pointer(SubSeq(segs, 1, Len(segs) - 1))
        last == segs[Len(segs)]
        parent == resolve(before, parent_ptr)
        parent_val == parent.val
        \* replace the parent's value by its value in after
        from_after == IF resolve(after, parent_ptr).ok
                      THEN _replace_value_at_pointer(doc, parent_ptr, resolve(after, parent_ptr).val)
                      ELSE NoEdits
        arr_len == Len(parent_val.vs)
        list_multiline == parent_ptr \in DOMAIN doc.spans /\ Multiline(doc, doc.spans[parent_ptr])
        add_to_list ==
            IF arr_len = 0 THEN from_after
            ELSE IF ~Has(op, "value") THEN NoEdits
            ELSE LET new_item == Get(op, "value")
                     dumped == json_dumps_indent(new_item)
                     compact == json_dumps(new_item)
                 IN IF last = "-" \/ (IsDigitSeg(last) /\ SegInt(last) = arr_len)
                    THEN LET last_ptr == _ptr_child(parent_ptr, IdxStr(arr_len - 1))
                         IN IF last_ptr \notin DOMAIN doc.spans THEN from_after
                            ELSE Edits(<<_edit_insert(doc, doc.spans[last_ptr][2],
                                            IF list_multiline THEN <<Tok(","), NL>> \o dumped
                                            ELSE <<Tok(",")>> \o compact)>>)
                    ELSE IF IsDigitSeg(last)
                    THEN LET child_ptr == _ptr_child(parent_ptr, last)
                         IN IF child_ptr \notin DOMAIN doc.spans THEN from_after
                            ELSE Edits(<<_edit_insert(doc, doc.spans[child_ptr][1],
                                            IF list_multiline THEN dumped \o <<Tok(","), NL>>
                                            ELSE compact \o <<Tok(",")>>)>>)
                    ELSE NoEdits
        add_to_object ==
            IF ~Has(op, "value") THEN NoEdits
            ELSE LET new_value == Get(op, "value")
                     key == last
                     child_ptr == _ptr_child_escaped(parent_ptr, key)
                     multiline == Multiline(doc, doc.spans[parent_ptr])
                     keys_in_order == parent_val.ks
                     last_ptr == _ptr_child_escaped(parent_ptr, keys_in_order[Len(keys_in_order)])
                 IN IF Has(parent_val, key) THEN _replace_value_at_pointer(doc, child_ptr, new_value)
                    ELSE IF parent_ptr \notin DOMAIN doc.spans THEN from_after
                    ELSE IF Len(parent_val.ks) = 0
                    THEN Edits(<<_edit_insert(doc, doc.spans[parent_ptr][1] + 1,
                                    IF multiline
                                    THEN <<NL>> \o _build_prop_block(key, new_value) \o <<NL>>
                                    ELSE _build_prop_inline(key, new_value))>>)
                    ELSE IF last_ptr \notin DOMAIN doc.pair_spans THEN from_after
                    ELSE Edits(<<_edit_insert(doc, doc.pair_spans[last_ptr][2],
                                    IF multiline
                                    THEN <<Tok(","), NL>> \o _build_prop_block(key, new_value)
                                    ELSE <<Tok(",")>> \o _build_prop_inline(key, new_value))>>)
        remove_from_list ==
            IF ~IsDigitSeg(last) THEN NoEdits
            ELSE LET idx == SegInt(last)
                     p0 == _ptr_child(parent_ptr, "0")
                     p1 == _ptr_child(parent_ptr, "1")
                     prev == _ptr_child(parent_ptr, IdxStr(idx - 1))
                     cur == _ptr_child(parent_ptr, IdxStr(idx))
                 IN IF idx >= arr_len THEN NoEdits
                    ELSE IF arr_len = 1 THEN _replace_value_at_pointer(doc, parent_ptr, JArr(<<>>))
                    ELSE IF idx = 0
                    THEN IF p0 \in DOMAIN doc.spans /\ p1 \in DOMAIN doc.spans
                         THEN delete_span(doc, <<doc.spans[p0][1], doc.spans[p1][1]>>)
                         ELSE from_after
                    ELSE IF prev \in DOMAIN doc.spans /\ cur \in DOMAIN doc.spans
                    THEN delete_span(doc, <<doc.spans[prev][2], doc.spans[cur][2]>>)
                    ELSE from_after
        remove_from_object ==
            LET key == last
                keys_in_order == parent_val.ks
                idx == IndexOf(keys_in_order, key)
                child_ptrs == [i \in 1..Len(keys_in_order) |->
                                  _ptr_child_escaped(parent_ptr, keys_in_order[i])]
            IN IF ~Has(parent_val, key) THEN NoEdits
               ELSE IF Len(keys_in_order) = 1
               THEN _replace_value_at_pointer(doc, parent_ptr, JObj(<<>>, <<>>))
               ELSE IF DOMAIN doc.pair_spans = {} THEN from_after
               ELSE IF \E i \in 1..Len(child_ptrs) : child_ptrs[i] \notin DOMAIN doc.pair_spans
               THEN from_after
               ELSE IF idx = 0
               THEN delete_span(doc, <<doc.pair_spans[child_ptrs[1]][1],
                                       doc.pair_spans[child_ptrs[2]][1]>>)
               ELSE delete_span(doc, <<doc.pair_spans[child_ptrs[idx]][2],
                                       doc.pair_spans[child_ptrs[idx + 1]][2]>>)
    IN IF DOMAIN doc.spans = {} THEN NoEdits
       ELSE IF kind = "replace" THEN _replace_value_at_pointer(doc, path, Get(op, "value"))
       ELSE IF kind \in {"add", "remove"}
       THEN IF segs = <<>> \/ ~parent.ok THEN NoEdits
            ELSE IF IsList(parent_val)
            THEN (IF kind = "add" THEN add_to_list ELSE remove_from_list)
            ELSE IF IsDict(parent_val)
            THEN (IF kind = "add" THEN add_to_object ELSE remove_from_object)
            ELSE NoEdits
       ELSE NoEdits

\* json.loads(json.dumps(value)): the copy a patch is applied to
DeepCopy(value) == json_loads(json_dumps(value)).val

\* Lsp(op, a) is a call by name made from lsp_server.py, a the argument tuple.
RECURSIVE Lsp(_, _)

\* _span_overlaps(a, b)
_span_overlaps(a, b) == a[1] < b[2] /\ b[1] < a[2]
\* _common_prefix_pointer([p, q])
RECURSIVE CommonPrefix(_, _)
CommonPrefix(s, t) ==
    IF s = <<>> \/ t = <<>> \/ Head(s) # Head(t) THEN <<>>
    ELSE <<Head(s)>> \o CommonPrefix(Tail(s), Tail(t))
_common_prefix_pointer(p, q) == join_pointer(CommonPrefix(split_pointer(p), split_pointer(q)))
\* _container_pointer_for_patch(op)
_container_pointer_for_patch(op) ==
    IF Get(op, "op").s = "replace" THEN PathOf(op)
    ELSE IF PathOf(op) = <<>> THEN <<>>
    ELSE join_pointer(SubSeq(split_pointer(PathOf(op)), 1, Len(PathOf(op)) - 1))

\* A group of _minimal_edits_for_patch_list_grouped: its container, the
\* indexes (in the patch) of its operations, the container's span, its edits
Group(container, items, span, edits) ==
    [container |-> container, items |-> items, span |-> span, edits |-> edits]
NoGroup == [ok |-> FALSE, raised |-> FALSE, group |-> Group(<<>>, <<>>, <<0, 0>>, <<>>)]
\* the operations of a patch at the given indexes, in patch order
OpsAt(patch_ops, items) ==
    LET idx == SelectSeq([i \in 1..Len(patch_ops) |-> i], LAMBDA i : i \in Range(items))
    IN [j \in 1..Len(idx) |-> patch_ops[idx[j]]]
\* the value of the container at cur after the operations at items: the
\* replacement of the container's value
replace_container(doc, before, patch_ops, cur, items) ==
    LET after == Lsp("apply_patch", <<Lsp("DeepCopy", <<before>>), OpsAt(patch_ops, items)>>)
        new_val == resolve(after.doc, cur)
        edits == _replace_value_at_pointer(doc, cur, new_val.val)
    IN IF ~after.ok THEN [NoGroup EXCEPT !.raised = TRUE]
       ELSE IF ~new_val.ok \/ ~edits.ok THEN NoGroup
       ELSE [ok |-> TRUE, raised |-> FALSE,
             group |-> Group(cur, items, doc.spans[cur], edits.edits)]
\* one group of the first loop
build_group(doc, before, patch_ops, cptr, items) ==
    LET whole == Lsp("replace_container", <<doc, before, patch_ops, cptr, items>>)
        after_group == Lsp("apply_patch", <<Lsp("DeepCopy", <<before>>), OpsAt(patch_ops, items)>>)
        single == Lsp("_minimal_edits_for_single_patch",
                      <<doc, before, after_group.doc, patch_ops[items[1]]>>)
    IN IF cptr \notin DOMAIN doc.spans THEN NoGroup
       ELSE IF ~after_group.ok THEN [NoGroup EXCEPT !.raised = TRUE]
       ELSE IF ~resolve(after_group.doc, cptr).ok THEN NoGroup
       ELSE IF Len(items) = 1 /\ single.ok
       THEN [ok |-> TRUE, raised |-> FALSE,
             group |-> Group(cptr, items, doc.spans[cptr], single.edits)]
       ELSE whole
\* _merge_two(a, b): the two groups as one, at a common ancestor with a span
RECURSIVE WalkUp(_, _)
WalkUp(doc, cur) ==
    IF cur \in DOMAIN doc.spans THEN [ok |-> TRUE, cur |-> cur]
    ELSE IF cur = <<>> THEN [ok |-> FALSE, cur |-> cur]
    ELSE WalkUp(doc, SubSeq(cur, 1, Len(cur) - 1))
_merge_two(doc, before, patch_ops, a, b) ==
    LET merged_items == SelectSeq([i \in 1..Len(patch_ops) |-> i],
                                  LAMBDA i : i \in Range(a.items) \cup Range(b.items))
        cur == WalkUp(doc, _common_prefix_pointer(a.container, b.container))
    IN IF ~cur.ok THEN NoGroup
       ELSE Lsp("replace_container", <<doc, before, patch_ops, cur.cur, merged_items>>)
\* one pass over the groups sorted by span: overlapping neighbours merge
merge_pass(doc, before, patch_ops, groups, j, st) ==
    IF j > Len(groups) \/ ~st.ok THEN st
    ELSE IF st.out = <<>>
    THEN Lsp("merge_pass", <<doc, before, patch_ops, groups, j + 1, [st EXCEPT !.out = <<groups[j]>>]>>)
    ELSE LET last == st.out[Len(st.out)]
             m == Lsp("_merge_two", <<doc, before, patch_ops, last, groups[j]>>)
         IN IF ~_span_overlaps(last.span, groups[j].span)
            THEN Lsp("merge_pass", <<doc, before, patch_ops, groups, j + 1,
                            [st EXCEPT !.out = Append(@, groups[j])]>>)
            ELSE IF ~m.ok THEN [st EXCEPT !.ok = FALSE, !.raised = m.raised]
            ELSE Lsp("merge_pass", <<doc, before, patch_ops, groups, j + 1,
                            [st EXCEPT !.out = SubSeq(@, 1, Len(@) - 1) \o <<m.group>>,
                                       !.changed = TRUE]>>)
BySpanStart(groups) == SortedBy(groups, LAMBDA x, y : x.span[1] <= y.span[1])
MergeState == [ok |-> TRUE, raised |-> FALSE, out |-> <<>>, changed |-> FALSE]
\* while changed: sort and pass again
merge_again(doc, before, patch_ops, merged) ==
    LET st == Lsp("merge_pass", <<doc, before, patch_ops, BySpanStart(merged), 1, MergeState>>)
    IN IF ~st.ok \/ ~st.changed THEN st
       ELSE Lsp("merge_again", <<doc, before, patch_ops, st.out>>)

\* _minimal_edits_for_patch_list_grouped(doc, before, patch_ops)
_minimal_edits_for_patch_list_grouped(doc, before, patch_ops) ==
    LET cptr(i) == _container_pointer_for_patch(patch_ops[i])
        \* the containers in the order of their first operation
        firsts == SelectSeq([i \in 1..Len(patch_ops) |-> i],
                            LAMBDA i : \A h \in 1..(i - 1) : cptr(h) # cptr(i))
        built == Tuple([g \in 1..Len(firsts) |->
                     Lsp("build_group", <<doc, before, patch_ops, cptr(firsts[g]),
                                 SelectSeq([i \in 1..Len(patch_ops) |-> i],
                                           LAMBDA i : cptr(i) = cptr(firsts[g]))>>)])
        built_groups == Tuple([g \in 1..Len(built) |-> built[g].group])
        first_pass == Lsp("merge_pass", <<doc, before, patch_ops, BySpanStart(built_groups), 1, MergeState>>)
        merged == Lsp("merge_again", <<doc, before, patch_ops, first_pass.out>>)
        emitted == SortedBy(merged.out, LAMBDA x, y : x.span[1] >= y.span[1])
    IN IF DOMAIN doc.spans = {} THEN NoEdits
       ELSE IF patch_ops = <<>> THEN Edits(<<>>)
       ELSE IF \E g \in 1..Len(built) : ~built[g].ok
       THEN (IF built[CHOOSE g \in 1..Len(built) :
                        ~built[g].ok /\ \A h \in 1..(g - 1) : built[h].ok].raised
             THEN Raised ELSE NoEdits)
       ELSE IF ~first_pass.ok THEN (IF first_pass.raised THEN Raised ELSE NoEdits)
       ELSE IF ~merged.ok THEN (IF merged.raised THEN Raised ELSE NoEdits)
       ELSE Edits(Flatten([g \in 1..Len(emitted) |-> emitted[g].edits]))

\* one operation of the first pass: a patch that does not apply alone, or has
\* no minimal edit, gives None
single_after(doc, before, op, after_single) ==
    IF ~after_single.ok THEN NoEdits
    ELSE Lsp("_minimal_edits_for_single_patch", <<doc, before, after_single.doc, op>>)

\* the second part of _minimal_edits_for_patch_list: the edits (si, ti, e) of
\* the operations, the inserts at one position merged; overlapping edits fall
\* back to the grouped strategy
merge_edits(doc, before, patch_ops, spans) ==
    LET IsInsert(x) == x.s = x.t
        other == SelectSeq(spans, LAMBDA x : ~IsInsert(x))
        \* the inserts, one per position, in the order of the first at each
        inserts == SelectSeq([i \in 1..Len(spans) |-> i],
                             LAMBDA i : /\ IsInsert(spans[i])
                                        /\ \A h \in 1..(i - 1) :
                                              ~(IsInsert(spans[h]) /\ spans[h].s = spans[i].s))
        insert_map == [j \in 1..Len(inserts) |->
                          [spans[inserts[j]] EXCEPT
                             !.e = TextEdit(@.range,
                                            Flatten([i \in 1..Len(spans) |->
                                                IF IsInsert(spans[i])
                                                   /\ spans[i].s = spans[inserts[j]].s
                                                THEN spans[i].e.newText ELSE <<>>]))]]
        merged == other \o insert_map
        merged_sorted == SortedBy(merged, LAMBDA x, y : x.s < y.s \/ (x.s = y.s /\ x.t <= y.t))
        merged_sorted_desc == SortedBy(merged, LAMBDA x, y : x.s >= y.s)
    IN IF spans = <<>> THEN Edits(<<>>)
       ELSE IF \E i \in 1..(Len(merged_sorted) - 1) : merged_sorted[i + 1].s < merged_sorted[i].t
       THEN Lsp("_minimal_edits_for_patch_list_grouped", <<doc, before, patch_ops>>)
       ELSE Edits([i \in 1..Len(merged_sorted_desc) |-> merged_sorted_desc[i].e])

\* the edits with their offsets in the text
edit_spans(doc, per_edits) ==
    Tuple([i \in 1..Len(per_edits) |->
              [s |-> offset(doc.text, per_edits[i].range.start.line,
                            per_edits[i].range.start.character),
               t |-> offset(doc.text, per_edits[i].range.end.line,
                            per_edits[i].range.end.character),
               e |-> per_edits[i]]])

\* the first pass of _minimal_edits_for_patch_list on the per-operation
\* results: one that is None falls back to the grouped strategy
per_op_edits(doc, before, patch_ops, singles) ==
    IF \E i \in 1..Len(singles) : ~singles[i].ok
    THEN Lsp("_minimal_edits_for_patch_list_grouped", <<doc, before, patch_ops>>)
    ELSE Lsp("merge_edits",
             <<doc, before, patch_ops,
               Lsp("edit_spans", <<doc, Flatten([i \in 1..Len(singles) |-> singles[i].edits])>>)>>)

\* _minimal_edits_for_patch_list(doc, before, patch_ops)
_minimal_edits_for_patch_list(doc, before, patch_ops) ==
    IF DOMAIN doc.spans = {} THEN NoEdits
    ELSE Lsp("per_op_edits",
             <<doc, before, patch_ops,
               \* per operation: the patch applied alone, and its minimal edits
               Tuple([i \in 1..Len(patch_ops) |->
                   Lsp("single_after",
                       <<doc, before, patch_ops[i],
                         Lsp("apply_patch", <<Lsp("DeepCopy", <<before>>), <<patch_ops[i]>>>>)>>)])>>)

\* semantic.check_module(mod) + typecheck.check_module(mod) + effects.check_effects(mod)
check_all(mod) ==
    Semantic("check_module", <<mod>>) \o Typecheck("check_module", <<mod>>)
    \o Effects("check_effects", <<mod>>)

\* IssueSummary and _summarize_non_schema(mod): the (code, pointer) keys of
\* the errors and of the warnings
IssueSummary(errors, warnings) == [errors |-> errors, warnings |-> warnings]
_summarize_non_schema(mod) ==
    LET iss == Lsp("check_all", <<mod>>)
        keys(warning) == {<<iss[i].code, iss[i].pointer>> :
                             i \in {j \in 1..Len(iss) : (iss[j].severity = "warning") = warning}}
    IN IssueSummary(keys(FALSE), keys(TRUE))

\* a check that lets every summary through
_no_regression_unchecked(base, new) == TRUE
\* _no_regression(base, new)
_no_regression(base, new) ==
    /\ new.errors \subseteq base.errors
    /\ ~(Cardinality(new.errors) = Cardinality(base.errors)
         /\ ~(new.warnings \subseteq base.warnings))
    /\ ~(new.errors = base.errors /\ new.warnings = base.warnings)

\* a pre-validation that lets every edit through
_edits_pass_unvalidated(doc, edits, baseline, target, expected_canonical) == TRUE
\* _edits_pass_prevalidation(doc, edits, baseline, target, expected_canonical);
\* target is <<>> for None
_edits_pass_prevalidation(doc, edits, baseline, target, expected_canonical) ==
    LET applied == _apply_text_edits_in_memory(doc.text, edits)
        value == json_loads(applied.text)
        new_sum == Lsp("_summarize_non_schema", <<value.val>>)
    IN /\ applied.ok
       /\ value.ok
       /\ IsDict(value.val)
       /\ Len(validate(value.val)) = 0
       /\ Lsp("dumps_canonical", <<value.val>>) = expected_canonical
       /\ (target # <<>> /\ target \in baseline.errors \cup baseline.warnings)
             => target \notin new_sum.errors \cup new_sum.warnings
       /\ _no_regression(baseline, new_sum)

\* The code actions
Action(title, kind, diagnostics, isPreferred, edits) ==
    [title |-> title, kind |-> kind, diagnostics |-> diagnostics,
     isPreferred |-> isPreferred, edits |-> edits]
\* a diagnostic of the request's context: its range and its data
Diagnostic(rng, code, pointer) == [range |-> rng, code |-> code, pointer |-> pointer]
NoRange == [start |-> Position(0 - 1, 0), end |-> Position(0 - 1, 0)]
supported == {"MissingReturn", "NotPure", "MissingEffect"}
Title(code, format) ==
    CASE code = "MissingReturn" ->
           IF format THEN "Astra: Add missing return + Format" ELSE "Astra: Add missing return"
      [] code = "NotPure" ->
           IF format THEN "Astra: Adjust effects (not pure) + Format"
           ELSE "Astra: Adjust effects (not pure)"
      [] code = "MissingEffect" ->
           IF format THEN "Astra: Add missing effects + Format" ELSE "Astra: Add missing effects"
      [] OTHER -> IF format THEN "Astra: Quick fix + Format" ELSE "Astra: Quick fix"

\* the loop over the context's diagnostics, from the j-th on; st is
\* [raised, actions, offered_any]
quick_fixes(doc, baseline, req_range, ctx_diags, j, st) ==
    IF j > Len(ctx_diags) \/ st.raised THEN st
    ELSE LET d == ctx_diags[j]
             mod == doc.module
             next(st2) == Lsp("quick_fixes", <<doc, baseline, req_range, ctx_diags, j + 1, st2>>)
             patch == Lsp("suggest_patches", <<mod, <<Issue(d.pointer, d.code, "error")>>>>)
             fixed == Lsp("apply_patch", <<Lsp("DeepCopy", <<mod>>), patch>>)
             expected_fixed == Lsp("dumps_canonical", <<fixed.doc>>)
             fallback == <<TextEdit(_full_range(doc.text), expected_fixed)>>
             minimal == IF Len(patch) = 1
                        THEN Lsp("_minimal_edits_for_single_patch", <<doc, mod, fixed.doc, patch[1]>>)
                        ELSE NoEdits
             first == IF minimal.ok THEN minimal.edits ELSE fallback
             target == <<d.code, d.pointer>>
             pass(edits) == Lsp("_edits_pass_prevalidation",
                                <<doc, edits, baseline, target, expected_fixed>>)
             first_passes == pass(first)
             fallback_passes == pass(fallback)
             quick == Action(Title(d.code, FALSE), "quickfix", <<d>>, TRUE,
                             IF first_passes THEN first ELSE fallback)
             with_format == Action(Title(d.code, TRUE), "quickfix", <<d>>, FALSE, fallback)
         IN IF req_range # NoRange /\ ~_range_intersects(req_range, d.range) THEN next(st)
            ELSE IF d.code \notin supported THEN next(st)
            ELSE IF patch = <<>> THEN next(st)
            ELSE IF ~fixed.ok THEN [st EXCEPT !.raised = TRUE]
            ELSE IF ~first_passes /\ ~fallback_passes THEN next(st)
            ELSE next([st EXCEPT
                         !.actions = @ \o <<quick>>
                                       \o (IF fallback_passes THEN <<with_format>> ELSE <<>>),
                         !.offered_any = TRUE])

\* the additional passes of fix-all: [raised, stable, patch_next, passes]
FixAllPasses == 5
stable_loop(stable, patch_next, passes) ==
    LET next == Lsp("apply_patch", <<Lsp("DeepCopy", <<stable>>), patch_next>>)
    IN IF patch_next # <<>> /\ passes < FixAllPasses
       THEN IF ~next.ok
            THEN [raised |-> TRUE, stable |-> stable, patch_next |-> patch_next, passes |-> passes]
            ELSE Lsp("stable_loop",
                     <<next.doc, Lsp("suggest_patches", <<next.doc, Lsp("check_all", <<next.doc>>)>>),
                       passes + 1>>)
       ELSE [raised |-> FALSE, stable |-> stable, patch_next |-> patch_next, passes |-> passes]

\* the fix-all part of on_code_action: [raised, actions]
fix_all(doc, baseline) ==
    LET mod == doc.module
        none == [raised |-> FALSE, actions |-> <<>>]
        patch_all == Lsp("suggest_patches", <<mod, Lsp("check_all", <<mod>>)>>)
        fixed_all == Lsp("apply_patch", <<Lsp("DeepCopy", <<mod>>), patch_all>>)
        reached == Lsp("stable_loop",
                       <<fixed_all.doc,
                         Lsp("suggest_patches", <<fixed_all.doc, Lsp("check_all", <<fixed_all.doc>>)>>),
                         0>>)
        expected_fixed_all == Lsp("dumps_canonical", <<reached.stable>>)
        fallback_all == <<TextEdit(_full_range(doc.text), expected_fixed_all)>>
        minimal == IF reached.passes = 0
                   THEN Lsp("_minimal_edits_for_patch_list", <<doc, mod, patch_all>>)
                   ELSE NoEdits
        first == IF minimal.ok THEN minimal.edits ELSE fallback_all
        pass(edits) == Lsp("_edits_pass_prevalidation",
                           <<doc, edits, baseline, <<>>, expected_fixed_all>>)
        first_passes == pass(first)
        fallback_passes == pass(fallback_all)
    IN IF patch_all = <<>> THEN none
       ELSE IF ~fixed_all.ok \/ reached.raised THEN [none EXCEPT !.raised = TRUE]
       ELSE IF reached.patch_next # <<>> THEN none
       ELSE IF minimal.raised THEN [none EXCEPT !.raised = TRUE]
       ELSE IF ~first_passes /\ ~fallback_passes THEN none
       ELSE [raised |-> FALSE,
             actions |->
                <<Action("Astra: Fix all (deterministic, minimal)", "source.fixAll", <<>>, FALSE,
                         IF first_passes THEN first ELSE fallback_all)>>
                \o (IF fallback_passes
                    THEN <<Action("Astra: Fix all (deterministic) + Format", "source.fixAll",
                                  <<>>, FALSE, fallback_all)>>
                    ELSE <<>>)]

\* the actions of on_code_action for the parsed document
code_actions(doc, req_range, ctx_diags) ==
    LET baseline == Lsp("_summarize_non_schema", <<doc.module>>)
        format == Action("Astra: Format (canonical)", "source.format", <<>>, FALSE,
                         <<TextEdit(_full_range(doc.text), Lsp("dumps_canonical", <<doc.module>>))>>)
        quick == Lsp("quick_fixes",
                     <<doc, baseline, req_range, ctx_diags, 1,
                       [raised |-> FALSE, actions |-> <<>>, offered_any |-> FALSE]>>)
        all == IF quick.offered_any THEN Lsp("fix_all", <<doc, baseline>>)
               ELSE [raised |-> FALSE, actions |-> <<>>]
    IN IF ~doc.ok THEN [ok |-> TRUE, actions |-> <<>>]
       ELSE IF quick.raised \/ all.raised THEN [ok |-> FALSE, actions |-> <<>>]
       ELSE [ok |-> TRUE, actions |-> <<format>> \o quick.actions \o all.actions]
\* the quick fixes of on_code_action for a request over the whole document
quick_fixes_for(doc, ctx_diags) ==
    Lsp("quick_fixes",
        <<doc, Lsp("_summarize_non_schema", <<doc.module>>), NoRange, ctx_diags, 1,
          [raised |-> FALSE, actions |-> <<>>, offered_any |-> FALSE]>>)
\* on_code_action for the open document with this text: [ok, actions];
\* ok = FALSE is the internal error that answers a request whose handler raised
on_code_action(text, req_range, ctx_diags) ==
    Lsp("code_actions", <<Document(text), req_range, ctx_diags>>)

Lsp(op, a) ==
    CASE op = "check_all" /\ Len(a) = 1 -> check_all(a[1])
      [] op = "suggest_patches" -> RepairSuggest("suggest_patches", a)
      [] op = "apply_patch" /\ Len(a) = 2 -> apply_patch(a[1], a[2])
      [] op = "dumps_canonical" /\ Len(a) = 1 -> dumps_canonical(a[1])
      [] op = "_summarize_non_schema" /\ Len(a) = 1 -> _summarize_non_schema(a[1])
      [] op = "_edits_pass_prevalidation" /\ Len(a) = 5 ->
           _edits_pass_prevalidation(a[1], a[2], a[3], a[4], a[5])
      [] op = "_minimal_edits_for_single_patch" /\ Len(a) = 4 ->
           _minimal_edits_for_single_patch(a[1], a[2], a[3], a[4])
      [] op = "_minimal_edits_for_patch_list_grouped" /\ Len(a) = 3 ->
           _minimal_edits_for_patch_list_grouped(a[1], a[2], a[3])
      [] op = "DeepCopy" /\ Len(a) = 1 -> DeepCopy(a[1])
      [] op = "replace_container" /\ Len(a) = 5 -> replace_container(a[1], a[2], a[3], a[4], a[5])
      [] op = "build_group" /\ Len(a) = 5 -> build_group(a[1], a[2], a[3], a[4], a[5])
      [] op = "_merge_two" /\ Len(a) = 5 -> _merge_two(a[1], a[2], a[3], a[4], a[5])
      [] op = "merge_pass" /\ Len(a) = 6 -> merge_pass(a[1], a[2], a[3], a[4], a[5], a[6])
      [] op = "merge_again" /\ Len(a) = 4 -> merge_again(a[1], a[2], a[3], a[4])
      [] op = "single_after" /\ Len(a) = 4 -> single_after(a[1], a[2], a[3], a[4])
      [] op = "per_op_edits" /\ Len(a) = 4 -> per_op_edits(a[1], a[2], a[3], a[4])
      [] op = "edit_spans" /\ Len(a) = 2 -> edit_spans(a[1], a[2])
      [] op = "merge_edits" /\ Len(a) = 4 -> merge_edits(a[1], a[2], a[3], a[4])
      [] op = "_minimal_edits_for_patch_list" /\ Len(a) = 3 -> _minimal_edits_for_patch_list(a[1], a[2], a[3])
      [] op = "quick_fixes" /\ Len(a) = 6 -> quick_fixes(a[1], a[2], a[3], a[4], a[5], a[6])
      [] op = "quick_fixes_for" /\ Len(a) = 2 -> quick_fixes_for(a[1], a[2])
      [] op = "stable_loop" /\ Len(a) = 3 -> stable_loop(a[1], a[2], a[3])
      [] op = "fix_all" /\ Len(a) = 2 -> fix_all(a[1], a[2])
      [] op = "code_actions" /\ Len(a) = 3 -> code_actions(a[1], a[2], a[3])
      [] op = "on_code_action" /\ Len(a) = 3 -> on_code_action(a[1], a[2], a[3])

\* _range_for_pointer(doc, pointer)
RECURSIVE _range_for_pointer(_, _)
_range_for_pointer(doc, cur) ==
    IF cur \in DOMAIN doc.pair_spans THEN range(doc.text, doc.pair_spans[cur])
    ELSE IF cur \in DOMAIN doc.spans THEN range(doc.text, doc.spans[cur])
    ELSE IF cur = <<>> THEN _full_range(doc.text)
    ELSE _range_for_pointer(doc, SubSeq(cur, 1, Len(cur) - 1))

\* the loop of _diagnostics_for over the analysers' issues: one diagnostic each
diagnostics_of(doc, iss) ==
    [i \in 1..Len(iss) |->
        Diagnostic(_range_for_pointer(doc, iss[i].pointer), iss[i].code, iss[i].pointer)]
\* _diagnostics_for(doc): the diagnostics published for the document
_diagnostics_for(doc) ==
    IF ~doc.ok THEN <<Diagnostic(_full_range(doc.text), "JSONParse", <<>>)>>
    ELSE diagnostics_of(doc, check_all(doc.module))

(***************************************************************************)
(* The modules the model is run on                                         *)
(***************************************************************************)
Call(fn, args) == JObj(<<"call">>, <<JObj(<<"fn", "args">>, <<JStr(fn), JArr(args)>>)>>)
VarRef(name) == JObj(<<"var">>, <<JStr(name)>>)
ExprStmt(e) == JObj(<<"expr">>, <<e>>)
ReturnStmt(e) == JObj(<<"return">>, <<e>>)
LetStmt(name, e) == JObj(<<"let">>, <<JObj(<<"name", "expr">>, <<JStr(name), e>>)>>)
IfStmt(c, t, e) == JObj(<<"if">>, <<JObj(<<"cond", "then", "else">>, <<c, JArr(t), JArr(e)>>)>>)
StrList(seq) == JArr([i \in 1..Len(seq) |-> JStr(seq[i])])

\* a function object with the keys name, params, effects, body
Function(name, params, effects, body) ==
    JObj(<<"name", "params", "effects", "body">>,
         <<JStr(name), StrList(params), StrList(effects), JArr(body)>>)
Module(functions) ==
    JObj(<<"module", "version", "functions">>, <<JStr("m"), JStr("1"), JArr(functions)>>)

\* sequences over a set, up to a length
SeqsUpTo(S, n) == UNION {[1..k -> S] : k \in 0..n}

\* Effect modules: f and g, in either order.  f declares one of the effect
\* lists and calls up to MaxCalls of: g, the builtins print and add, and h,
\* which no module defines; g declares ["pure"] and may call f back.
MaxCalls == 2
EffectLists == {<<>>, <<"pure">>, <<"io.print">>, <<"pure", "io.print">>}
Callees == <<"g", "print", "add", "h">>
CalleeLists ==
    {SelectSeq(Callees, LAMBDA c : c \in S) :
        S \in {T \in SUBSET Range(Callees) : Cardinality(T) <= MaxCalls}}
CallStmt(callee) ==
    ExprStmt(CASE callee = "print" -> Call("print", <<JNum(1)>>)
               [] callee = "add" -> Call("add", <<JNum(1), JNum(2)>>)
               [] OTHER -> Call(callee, <<>>))
CallBody(callees, returns) ==
    [i \in 1..Len(callees) |-> CallStmt(callees[i])]
    \o (IF returns THEN <<ReturnStmt(JNull)>> ELSE <<>>)
EffectModules ==
    {Module(IF swap THEN <<g, f>> ELSE <<f, g>>) :
        f \in {Function("f", <<>>, e, CallBody(c, r)) :
                  e \in EffectLists, c \in CalleeLists, r \in BOOLEAN},
        g \in {Function("g", <<>>, <<"pure">>, CallBody(c, TRUE)) : c \in {<<>>, <<"f">>}},
        swap \in BOOLEAN}

ListExpr(items) == JObj(<<"list">>, <<JArr(items)>>)
\* x < 1
XBelowOne == Call("lt", <<VarRef("x"), JNum(1)>>)

\* Gate modules: f(x) calls print, g and list_map over g, up to MaxStmts
\* statements, then returns; g(y) returns at once or after print or http_get.
MaxStmts == 2
GateStmts ==
    {ExprStmt(Call("print", <<VarRef("x")>>)),
     ExprStmt(Call("g", <<VarRef("x")>>)),
     ExprStmt(Call("list_map", <<JStr("g"), ListExpr(<<VarRef("x")>>)>>))}
GateModules ==
    {Module(<<Function("f", <<"x">>, <<"io.print">>, body \o <<ReturnStmt(JNull)>>),
              Function("g", <<"y">>, <<"io.print">>, gbody \o <<ReturnStmt(VarRef("y"))>>)>>) :
        body \in SeqsUpTo(GateStmts, MaxStmts),
        gbody \in {<<>>, <<ExprStmt(Call("print", <<VarRef("y")>>))>>,
                   <<ExprStmt(Call("http_get", <<VarRef("y")>>))>>}}
\* the allow-lists a run is started with
AllowSets == {{}, {"pure"}, {"io.print"}, {"net.http"}, {"io.print", "net.http"}}

\* Flow modules: f(x) binds y, returns, and branches on x < 1, up to MaxStmts
\* statements; g(y) returns on one branch only.
Branches ==
    {<<>>, <<LetStmt("y", JNum(1))>>, <<ReturnStmt(JNum(1))>>, <<ReturnStmt(VarRef("y"))>>}
FlowStmts ==
    {LetStmt("y", JNum(1)), ReturnStmt(VarRef("y")), ReturnStmt(Call("g", <<VarRef("x")>>))}
    \cup {IfStmt(XBelowOne, t, e) : t \in Branches, e \in Branches}
FlowModules ==
    {Module(<<Function("f", <<"x">>, <<"pure">>, body),
              Function("g", <<"y">>, <<"pure">>,
                       <<IfStmt(Call("lt", <<VarRef("y"), JNum(1)>>),
                                <<ReturnStmt(JNum(1))>>, <<>>)>>)>>) :
        body \in SeqsUpTo(FlowStmts, MaxStmts)}

\* Type modules: f(x) under each annotation (none; Int -> Int; String -> Int;
\* T -> Int and T -> T with the type parameter T; List[Int] -> Int) with each
\* body; g : Int -> Int.
Annotations ==
    {[type_params |-> <<>>, param_types |-> <<>>, returns |-> ""],
     [type_params |-> <<>>, param_types |-> <<"Int">>, returns |-> "Int"],
     [type_params |-> <<>>, param_types |-> <<"String">>, returns |-> "Int"],
     [type_params |-> <<"T">>, param_types |-> <<"T">>, returns |-> "Int"],
     [type_params |-> <<"T">>, param_types |-> <<"T">>, returns |-> "T"],
     [type_params |-> <<>>, param_types |-> <<"List[Int]">>, returns |-> "Int"]}
\* a function object with the annotation's keys present when it gives them
TypedFunction(name, params, ann, body) ==
    JObj(<<"name", "params">>
           \o (IF ann.type_params = <<>> THEN <<>> ELSE <<"type_params">>)
           \o (IF ann.param_types = <<>> THEN <<>> ELSE <<"param_types">>)
           \o (IF ann.returns = "" THEN <<>> ELSE <<"returns">>)
           \o <<"effects", "body">>,
         <<JStr(name), StrList(params)>>
           \o (IF ann.type_params = <<>> THEN <<>> ELSE <<StrList(ann.type_params)>>)
           \o (IF ann.param_types = <<>> THEN <<>> ELSE <<StrList(ann.param_types)>>)
           \o (IF ann.returns = "" THEN <<>> ELSE <<JStr(ann.returns)>>)
           \o <<StrList(<<"pure">>), JArr(body)>>)
TypeBodies ==
    {<<ReturnStmt(Call("add", <<VarRef("x"), JNum(1)>>))>>,
     <<ReturnStmt(XBelowOne)>>,
     <<ReturnStmt(Call("len", <<VarRef("x")>>))>>,
     <<ReturnStmt(VarRef("x"))>>,
     <<LetStmt("y", Call("add", <<VarRef("x"), VarRef("x")>>)), ReturnStmt(VarRef("y"))>>,
     <<ReturnStmt(Call("g", <<VarRef("x")>>))>>,
     <<ReturnStmt(Call("list_map", <<JStr("g"), ListExpr(<<VarRef("x")>>)>>))>>,
     <<IfStmt(Call("eq", <<VarRef("x"), JNum(1)>>),
              <<ReturnStmt(JNum(1))>>,
              <<ReturnStmt(Call("add", <<VarRef("x"), JNum(1)>>))>>)>>}
TypeModules ==
    {Module(<<TypedFunction("f", <<"x">>, ann, body),
              TypedFunction("g", <<"y">>,
                            [type_params |-> <<>>, param_types |-> <<"Int">>, returns |-> "Int"],
                            <<ReturnStmt(Call("add", <<VarRef("y"), JNum(1)>>))>>)>>) :
        ann \in Annotations, body \in TypeBodies}
\* the argument values of a run, and whether a value matches a declared
\* parameter type (an unannotated parameter and a type parameter admit any)
ArgValues == {JNum(0), JNum(1), JStr("a"), JArr(<<JNum(1)>>)}
Matches(v, type) ==
    CASE type = "Int" -> v.k = "num"
      [] type = "String" -> v.k = "str"
      [] type = "List[Int]" -> v.k = "arr" /\ \A i \in 1..Len(v.vs) : v.vs[i].k = "num"
      [] OTHER -> TRUE
DeclaredParamType(fn, j) ==
    IF Has(fn, "param_types") THEN Get(fn, "param_types").vs[j].s ELSE "Any"

\* Documents for the formatter: a module with one function and its tests,
\* the keys of the module, the function, the test case and the statement's
\* inner object in more than one order, and null among the inner values.
Reorder(obj, order) == JObj(order, [i \in 1..Len(order) |-> Get(obj, order[i])])
TestOrders ==
    {<<"name", "fn", "args", "expect">>, <<"expect", "args", "fn", "name">>,
     <<"fn", "name", "expect", "args">>}
TestLists ==
    {<<>>} \cup
    {<<Reorder(JObj(<<"name", "fn", "args", "expect">>,
                    <<JStr("t"), JStr("f"), JArr(<<JNum(1)>>), expect>>), order)>> :
        expect \in {JNum(1), JNull}, order \in TestOrders}
FmtStmts ==
    {JObj(<<"let">>, <<Reorder(JObj(<<"name", "expr">>, <<JStr("y"), expr>>), order)>>) :
        expr \in {JNum(1), JNull}, order \in {<<"name", "expr">>, <<"expr", "name">>}}
    \cup
    {JObj(<<"assert">>, <<Reorder(JObj(<<"expr", "message">>, <<XBelowOne, message>>), order)>>) :
        message \in {JStr("a"), JNull}, order \in {<<"expr", "message">>, <<"message", "expr">>}}
    \cup
    {JObj(<<"if">>, <<Reorder(JObj(<<"cond", "then", "else">>,
                                   <<XBelowOne, JArr(<<ReturnStmt(JNum(1))>>), orelse>>), order)>>) :
        orelse \in {JArr(<<>>), JNull},
        order \in {<<"cond", "then", "else">>, <<"else", "then", "cond">>}}
    \cup {ReturnStmt(JNull)}
FmtDocs ==
    {Reorder(JObj(<<"module", "version", "functions", "tests">>,
                  <<JStr("m"), JStr("1"),
                    JArr(<<Reorder(Function("f", <<"x">>, <<"pure">>, <<stmt>>), forder)>>),
                    JArr(tests)>>), morder) :
        stmt \in FmtStmts, tests \in TestLists,
        forder \in {<<"name", "params", "effects", "body">>, <<"body", "effects", "params", "name">>},
        morder \in {<<"module", "version", "functions", "tests">>,
                    <<"tests", "functions", "version", "module">>}}

(***************************************************************************)
(* State                                                                   *)
(***************************************************************************)
\* Documents for the editor service: f(x) over the effect lists and bodies
\* below, with a declared return type on some, alone or followed by g(y) with
\* an empty body; each module in four layouts.
AssertStmt(e) == JObj(<<"assert">>, <<JObj(<<"expr">>, <<e>>)>>)
LspFunction(name, params, returns, effects, body) ==
    JObj(<<"name", "params">> \o (IF returns = "" THEN <<>> ELSE <<"returns">>)
           \o <<"effects", "body">>,
         <<JStr(name), StrList(params)>> \o (IF returns = "" THEN <<>> ELSE <<JStr(returns)>>)
           \o <<StrList(effects), JArr(body)>>)
LspEffects == {<<"pure">>, <<"pure", "io.print">>, <<"io.print", "pure">>}
LspBodies ==
    {<<>>,
     <<AssertStmt(XBelowOne)>>,
     <<ExprStmt(Call("print", <<VarRef("x")>>))>>,
     <<ExprStmt(Call("print", <<JStr(Astral)>>)), ReturnStmt(JNull)>>,
     <<ExprStmt(Call("http_get", <<VarRef("x")>>)), ReturnStmt(JNull)>>,
     <<ReturnStmt(JNum(1))>>}
LspModules ==
    {Module(<<LspFunction("f", <<"x">>, "", effects, body)>>) :
        effects \in LspEffects, body \in LspBodies}
    \cup {Module(<<LspFunction("f", <<"x">>, "Int", effects, body)>>) :
              effects \in LspEffects,
              body \in {<<>>, <<AssertStmt(XBelowOne)>>, <<ReturnStmt(JNum(1))>>}}
    \cup {Module(<<LspFunction("f", <<"x">>, "", effects, body),
                    LspFunction("g", <<"y">>, "", <<"pure">>, <<>>)>>) :
              effects \in {<<"pure">>, <<"pure", "io.print">>},
              body \in {<<>>, <<ExprStmt(Call("print", <<VarRef("x")>>))>>}}
\* the layouts: one line; indented, lines ended by "\n"; by "\r"; by "\r\n"
Layouts == {"compact", "lf", "cr", "crlf"}
Layout(ast, layout) ==
    LET lf == json_dumps_indent(ast) \o <<NL>>
    IN CASE layout = "compact" -> json_dumps(ast)
         [] layout = "lf" -> lf
         [] layout = "cr" -> [i \in 1..Len(lf) |-> IF lf[i] = NL THEN CR ELSE lf[i]]
         [] layout = "crlf" ->
              LET at(i) == i + Cardinality({j \in 1..(i - 1) : lf[j] = NL})
                  n == Len(lf) + Cardinality({j \in 1..Len(lf) : lf[j] = NL})
              IN [p \in 1..n |->
                     IF \E i \in 1..Len(lf) : at(i) = p
                     THEN LET i == CHOOSE i \in 1..Len(lf) : at(i) = p
                          IN IF lf[i] = NL THEN CR ELSE lf[i]
                     ELSE NL]
LspTexts == {Layout(ast, layout) : ast \in LspModules, layout \in Layouts}

VARIABLES
    module,     \* the document at hand: the module being repaired, run, formatted or edited
    issues,     \* the issues or diagnostics last computed for it
    before,     \* what the last step started from (the issues, the text, the request)
    pc,         \* where the program stands
    it,         \* a counter of the steps taken (the repair loop's iteration)
    last,       \* what the last step did
    run,        \* the last call and its result (run_module, parse_with_positions, ...)
    text,       \* the text at hand: the file written, the document open in the editor
    actions     \* what the last step returned (the code actions of the editor service)
vars == <<module, issues, before, pc, it, last, run, text, actions>>

\* Before any run: runtime_guarded's module state is _allowed_effects = {"pure"}
\* and _dispatch = None.
NoRun ==
    [fn |-> "", args |-> <<>>, allowed |-> {}, net |-> FALSE,
     res |-> Ok(JNull, EmptyMap, World({"pure"}, JNull, FALSE))]

(***************************************************************************)
(* SpecRepair: astra repair-loop and apply_suggestions on effect modules   *)
(***************************************************************************)
\* repair-loop --max-iters default
MaxIters == 5

\* What an LLM provider may answer: nothing (the mock provider), a patch, a
\* patch that does not apply, or a patch whose second operation does not apply.
ProviderPatches ==
    {<<>>,
     <<PatchOpV("replace", <<"functions", "0", "effects">>, StrList(<<"io.print">>))>>,
     <<PatchOp("remove", <<"functions", "9">>)>>,
     <<PatchOpV("replace", <<"functions", "0", "effects">>, StrList(<<"io.print">>)),
       PatchOp("remove", <<"functions", "9">>)>>}

InitRepair ==
    /\ module \in EffectModules
    /\ issues = collect_issues(module)
    /\ before = <<>>
    /\ pc = "loop"
    /\ it = 0
    /\ last = "load"
    /\ run = NoRun
    /\ text = <<>>
    /\ actions = <<>>

\* the application of a patch inside the loop: the module is patched (in
\* place) and the next iteration collects its issues; a patch that does not
\* apply raises out of repair_loop.  actions.good keeps the module as it was
\* before the batch, actions.asked whether the provider has been asked in
\* this or an earlier iteration.
Patched(patch, how) ==
    LET r == apply_patch(module, patch)
    IN /\ module' = r.doc
       /\ before' = issues
       /\ issues' = collect_issues(r.doc)
       /\ it' = it + 1
       /\ pc' = IF r.ok THEN "loop" ELSE "raised"
       /\ last' = IF r.ok THEN how ELSE "apply failed"
       /\ actions' = [good |-> module,
                       asked |-> how = "provider" \/ (it > 0 /\ actions.asked)]
       /\ UNCHANGED <<run, text>>

\* an iteration that finds no error: break
LoopNoErrors ==
    /\ pc = "loop" /\ it < MaxIters
    /\ ~HasErrors(issues)
    /\ pc' = "done" /\ last' = "clean"
    /\ UNCHANGED <<module, issues, before, it, run, text, actions>>
\* an iteration in which the suggester proposes patches
LoopSuggested ==
    /\ pc = "loop" /\ it < MaxIters
    /\ HasErrors(issues)
    /\ RepairSuggest("suggest_patches", <<module, issues>>) # <<>>
    /\ Patched(RepairSuggest("suggest_patches", <<module, issues>>), "suggested")
\* an iteration in which it proposes none: the provider is asked
LoopProvider ==
    /\ pc = "loop" /\ it < MaxIters
    /\ HasErrors(issues)
    /\ RepairSuggest("suggest_patches", <<module, issues>>) = <<>>
    /\ \E llm_patch \in ProviderPatches :
          IF llm_patch = <<>>
          THEN /\ pc' = "done" /\ last' = "gave up"
               /\ UNCHANGED <<module, issues, before, it, run, text, actions>>
          ELSE Patched(llm_patch, "provider")
\* range(max_iters) is exhausted
LoopExhausted ==
    /\ pc = "loop" /\ it = MaxIters
    /\ pc' = "done" /\ last' = "exhausted"
    /\ UNCHANGED <<module, issues, before, it, run, text, actions>>

\* repair_suggest.apply_suggestions(module, [issue]) for one reported issue,
\* followed by a new check
ApplySuggestions ==
    /\ pc = "loop" /\ it = 0 /\ last = "load"
    /\ \E i \in 1..Len(issues) :
          LET patches == RepairSuggest("suggest_patches", <<module, <<issues[i]>> >>)
              r == apply_patch(module, patches)
          IN /\ patches # <<>>
             /\ module' = r.doc
             /\ before' = <<issues[i]>>
             /\ issues' = collect_issues(r.doc)
             /\ pc' = "done"
             /\ last' = IF r.ok THEN "fixed one" ELSE "raised"
             /\ UNCHANGED <<it, run, text, actions>>

NextRepair ==
    \/ LoopNoErrors
    \/ LoopSuggested
    \/ LoopProvider
    \/ LoopExhausted
    \/ ApplySuggestions
SpecRepair == InitRepair /\ [][NextRepair]_vars

(***************************************************************************)
(* Properties of the repair loop and the effect checker (SpecRepair)       *)
(***************************************************************************)
SupportedCodes == {"MissingReturn", "NotPure", "MissingEffect"}
\* the size of the multiset of issues with a supported code
SupportedCount(iss) == Cardinality({i \in 1..Len(iss) : iss[i].code \in SupportedCodes})

\* C2 (repair fixpoint): after a pass that applied the suggester's patches and
\* re-ran the checkers, the issues with a supported code (MissingReturn,
\* NotPure, MissingEffect) are strictly fewer than before the pass.
C2_RepairPassDecreases ==
    last = "suggested" => SupportedCount(issues) < SupportedCount(before)

\* C4 (effect monotonicity): in the map of compute_transitive_effects, every
\* user function's effect set contains the effect set of every function its
\* body references.
C4_EffectMonotone ==
    \A f \in UserNames(module) :
        \A i \in 1..Len(BodyCalls(module, f)) :
            LET g == BodyCalls(module, f)[i].name
                effects == Effects("compute_transitive_effects", <<module>>).memo
            IN g \in DOMAIN effects => effects[g] \subseteq effects[f]

\* C5 (MissingEffect repair): after the suggester's patch for a MissingEffect
\* issue has been applied, check_effects reports no MissingEffect at that
\* issue's pointer.
C5_MissingEffectRepaired ==
    (last = "fixed one" /\ before[1].code = "MissingEffect")
    => \A i \in 1..Len(Effects("check_effects", <<module>>)) :
          LET issue == Effects("check_effects", <<module>>)[i]
          IN ~(issue.code = "MissingEffect" /\ issue.pointer = before[1].pointer)

\* C26 (provider within the budget): the loop runs at most max_iters
\* iterations, applies a patch only in an iteration whose issues contain an
\* error, and when the iterations are used up with errors left the provider
\* has been asked in one of them.
C26_ProviderWithinBudget ==
    /\ it <= MaxIters
    /\ last \in {"suggested", "provider"} => HasErrors(before)
    /\ (last = "exhausted" /\ HasErrors(issues)) => actions.asked

\* C19 (patch-apply errors in the driver): when applying a batch fails inside
\* repair_loop, the driver has returned (it does not raise), and the module
\* it holds is the one from before the failing batch.
C19_PatchFailureReturnsLastGood ==
    last = "apply failed" => (pc = "done" /\ module = actions.good)

(***************************************************************************)
(* Runs: run_module(module, fn, args, allowed_effects), one after another  *)
(***************************************************************************)
\* one call of run_module; the process-wide allow-list and dispatcher it
\* leaves behind are in the world of its result
RunModule(fn, args, allowed_effects, net) ==
    /\ run' = [fn |-> fn, args |-> args, allowed |-> allowed_effects, net |-> net,
               res |-> Interp("run_module", <<module, fn, args, allowed_effects, net>>)]
    /\ pc' = "ran"
    /\ UNCHANGED <<module, issues, before, it, last, text, actions>>

InitRun(modules) ==
    /\ module \in modules
    /\ issues = <<>>
    /\ before = <<>>
    /\ pc = "loaded"
    /\ it = 0
    /\ last = "load"
    /\ run = NoRun
    /\ text = <<>>
    /\ actions = <<>>

\* SpecGate: runs of gate modules under every allow-list, with the network
\* answering or not
InitGate == InitRun(GateModules)
RunGate ==
    \E fn \in {"f", "print"}, allowed_effects \in AllowSets, net \in BOOLEAN :
        RunModule(fn, <<JStr("a")>>, allowed_effects, net)
NextGate == RunGate
SpecGate == InitGate /\ [][NextGate]_vars

\* the side effects a run performed, and the allow-list it ran under
Performed == {run.res.w.out[i].effect : i \in 1..Len(run.res.w.out)}
AllowList == IF run.allowed = {} THEN {"pure"} ELSE run.allowed

\* C6 (effect gate): in every run, no builtin performs a side effect whose
\* effect is outside the allow-list (an empty list counting as {pure}); a
\* refused effect raises EffectError once, and that fault is the outcome of
\* the whole run, from whatever depth of user functions or of the
\* higher-order dispatcher it was raised.
C6_EffectGate ==
    pc = "ran" =>
        /\ Performed \subseteq AllowList
        /\ run.res.w.denied <= 1
        /\ run.res.w.denied = 1 => (run.res.st = "fault" /\ run.res.fault = "EffectError")
\* a run in which g, called through list_map after f had printed, was refused
\* http_get: the print happened, the request did not, the run ended in
\* EffectError
C6_Witness ==
    /\ pc = "ran" /\ run.fn = "f"
    /\ run.allowed = {"io.print"}
    /\ run.res.w.denied = 1
    /\ Performed = {"io.print"}
    /\ run.res.fault = "EffectError"
    /\ \E i \in 1..Len(Body(UserFunc(module, "f"))) :
          Body(UserFunc(module, "f"))[i]
              = ExprStmt(Call("list_map", <<JStr("g"), ListExpr(<<VarRef("x")>>)>>))

\* SpecFlow: runs of flow modules on x = 0 and x = 1, the two outcomes of
\* every branch
InitFlow == InitRun(FlowModules)
RunFlow ==
    \E x \in {0, 1} : RunModule("f", <<JNum(x)>>, {"pure"}, FALSE)
NextFlow == RunFlow
SpecFlow == InitFlow /\ [][NextFlow]_vars

\* the issues semantic.check_module reports with a code inside function name
IssuesIn(name, code) ==
    LET found == Semantic("check_module", <<module>>)
        base == <<"functions", IdxStr(UserIndex(module, name))>>
    IN {i \in 1..Len(found) :
           /\ found[i].code = code
           /\ Len(found[i].pointer) >= 2
           /\ SubSeq(found[i].pointer, 1, 2) = base}

\* C7 (definite assignment): a function in which the analyser reports no
\* UndefinedVariable never has an unbound variable evaluated in its frame,
\* whatever the argument and the branches taken.
C7_DefiniteAssignment ==
    pc = "ran" =>
        \A name \in UserNames(module) :
            IssuesIn(name, "UndefinedVariable") = {} => name \notin run.res.w.undef
\* f binds y on both branches of an if and then returns it: nothing is
\* reported in f, and the run evaluates y and returns its value
C7_Witness ==
    /\ pc = "ran"
    /\ IssuesIn("f", "UndefinedVariable") = {}
    /\ Body(UserFunc(module, "f"))
          = <<IfStmt(XBelowOne, <<LetStmt("y", JNum(1))>>, <<LetStmt("y", JNum(1))>>),
              ReturnStmt(VarRef("y"))>>
    /\ run.res.st = "ok" /\ run.res.val = JNum(1)
    /\ run.res.w.undef = {}

\* Some control path through the statements reaches their end without a
\* return: the paths are the choices of a branch at every if.
RECURSIVE CanFallThrough(_)
CanFallThrough(stmts) ==
    IF Len(stmts) = 0 THEN TRUE
    ELSE LET stmt == Head(stmts)
         IN IF Has(stmt, "return") THEN FALSE
            ELSE IF Has(stmt, "if")
            THEN /\ \/ CanFallThrough(Get(Get(stmt, "if"), "then").vs)
                    \/ CanFallThrough(Get(Get(stmt, "if"), "else").vs)
                 /\ CanFallThrough(Tail(stmts))
            ELSE CanFallThrough(Tail(stmts))

\* C8 (missing return): MissingReturn is reported at /functions/i exactly
\* when some control path through function i's body reaches its end without
\* a return; and a function for which it is not reported never completes a
\* call by running off the end of its body.
C8_MissingReturn ==
    \A name \in UserNames(module) :
        LET reported ==
                \E i \in IssuesIn(name, "MissingReturn") :
                    Len(Semantic("check_module", <<module>>)[i].pointer) = 2
        IN /\ reported <=> CanFallThrough(Body(UserFunc(module, name)))
           /\ (pc = "ran" /\ ~reported) => name \notin run.res.w.fell
\* f returns on both branches of an if (no MissingReturn in f) and the run
\* returns 1; g, which returns on one branch only, is reported
C8_Witness ==
    /\ pc = "ran"
    /\ Body(UserFunc(module, "f"))
          = <<IfStmt(XBelowOne, <<ReturnStmt(JNum(1))>>, <<ReturnStmt(JNum(1))>>)>>
    /\ IssuesIn("f", "MissingReturn") = {}
    /\ IssuesIn("g", "MissingReturn") # {}
    /\ run.res.st = "ok" /\ run.res.val = JNum(1)
    /\ run.res.w.fell = {}

\* SpecTypes: runs of f in type modules on every argument value that matches
\* the declared parameter type
InitTypes == InitRun(TypeModules)
RunTypes ==
    \E v \in ArgValues :
        /\ Matches(v, DeclaredParamType(UserFunc(module, "f"), 1))
        /\ RunModule("f", <<v>>, {"pure"}, FALSE)
NextTypes == RunTypes
SpecTypes == InitTypes /\ [][NextTypes]_vars

\* C9 (local type soundness): when the type checker reports no error for the
\* module, a run of a function on arguments matching its declared parameter
\* types does not fault with a type error.
C9_TypeSoundness ==
    (pc = "ran" /\ ~HasErrors(Typecheck("check_module", <<module>>)))
    => run.res.fault # "TypeError"

(***************************************************************************)
(* SpecFmt: astra format --no-validate --in-place, run again and again on  *)
(* a file                                                                  *)
(***************************************************************************)
MaxFormats == 3

InitFmt ==
    /\ text \in {json_dumps(doc) : doc \in FmtDocs}
    /\ module = JNull
    /\ issues = <<>>
    /\ before = <<>>
    /\ pc = "file"
    /\ it = 0
    /\ last = "load"
    /\ run = NoRun
    /\ actions = <<>>

\* fmt.main: load_json(path); formatted = dumps_canonical(ast);
\* path.write_text(formatted); a text that does not parse leaves the file as
\* it is (exit code 3)
Format ==
    /\ it < MaxFormats
    /\ LET ast == json_loads(text)
       IN IF ast.ok
          THEN /\ module' = ast.val
               /\ text' = dumps_canonical(ast.val)
               /\ before' = text
               /\ pc' = "formatted"
          ELSE /\ pc' = "exit 3"
               /\ UNCHANGED <<module, text, before>>
    /\ it' = it + 1
    /\ UNCHANGED <<issues, last, run, actions>>
NextFmt == Format
SpecFmt == InitFmt /\ [][NextFmt]_vars

\* C10 (canonicalisation is idempotent): formatting a file that the formatter
\* wrote gives the same text again, for every document, whatever its key
\* order, test cases expecting null and null inner values included.
C10_Idempotent == (pc = "formatted" /\ it >= 2) => text = before

(***************************************************************************)
(* SpecLsp: the editor service on an open document                         *)
(***************************************************************************)
\* what the client may send with a code-action request: the diagnostics
\* published for the document, and diagnostics the document may no longer have
StaleDiagnostics(doc_text) ==
    {Diagnostic(_full_range(doc_text), "MissingReturn", <<"functions", "0">>),
     Diagnostic(_full_range(doc_text), "NotPure", <<"functions", "0", "effects">>),
     Diagnostic(_full_range(doc_text), "MissingEffect", <<"functions", "0", "effects">>)}
ContextDiagnostics == {issues} \cup {<<d>> : d \in StaleDiagnostics(text)}
RequestRanges == {NoRange, [start |-> Position(0, 0), end |-> Position(0, 1)]}

\* AstraLSP(): no document is open
InitLsp ==
    /\ text = <<>>
    /\ module = JNull
    /\ issues = <<>>
    /\ before = <<>>
    /\ pc = "started"
    /\ it = 0
    /\ last = "initialize"
    /\ run = NoRun
    /\ actions = <<>>

\* textDocument/didOpen: the document's text, its parse, and the diagnostics
\* published for it
DidOpen ==
    /\ pc = "started"
    /\ \E new_text \in LspTexts :
          /\ text' = new_text
          /\ \E doc \in {Document(new_text)} :
                /\ module' = doc.module
                /\ issues' = _diagnostics_for(doc)
    /\ pc' = "open"
    /\ last' = "didOpen"
    /\ UNCHANGED <<before, it, run, actions>>

\* textDocument/codeAction
CodeAction ==
    /\ pc = "open"
    /\ \E req_range \in RequestRanges, ctx_diags \in ContextDiagnostics :
          \E answer \in {Lsp("on_code_action", <<text, req_range, ctx_diags>>)} :
             /\ actions' = answer.actions
             /\ pc' = IF answer.ok THEN "answered" ELSE "internal error"
             /\ before' = ctx_diags
    /\ last' = "codeAction"
    /\ UNCHANGED <<module, issues, it, run, text>>

NextLsp == DidOpen \/ CodeAction
SpecLsp == InitLsp /\ [][NextLsp]_vars

\* the quick fixes and the fix-all actions of the last answer
Offered(kinds) == {i \in 1..Len(actions) : actions[i].kind \in kinds}
\* the document after the client applies the edits of the i-th action:
\* [ok, val], ok = FALSE when the edits do not apply or the text does not parse
AfterAction(i) ==
    LET applied == _apply_text_edits_in_memory(text, actions[i].edits)
        value == json_loads(applied.text)
    IN [ok |-> applied.ok /\ value.ok, val |-> value.val]
\* the (code, pointer) keys of the document's errors and warnings
SummaryOf(mod) == Lsp("_summarize_non_schema", <<mod>>)
\* the function a diagnostic's pointer is in declares a return type
DeclaresReturn(d) ==
    /\ Len(d.pointer) >= 2
    /\ d.pointer[1] = "functions"
    /\ IsDigitSeg(d.pointer[2])
    /\ SegInt(d.pointer[2]) < Len(Functions(module))
    /\ Has(Functions(module)[SegInt(d.pointer[2]) + 1], "returns")

\* C1 (no regression): for every quick fix and fix-all action that
\* on_code_action returns, the document after its edits has no error that the
\* open document does not have; if it has the same errors, it has no warning
\* that the open document does not have; its errors and warnings are not
\* those of the open document; and the (code, pointer) of the diagnostic a
\* quick fix is for is gone.  A "missing return" quick fix is not offered for
\* a function that declares a return type, where the appended `return null`
\* would be a ReturnTypeMismatch.
C1_NoRegression ==
    pc = "answered" =>
        /\ \A i \in Offered({"quickfix", "source.fixAll"}) :
              LET base == SummaryOf(module)
                  new == SummaryOf(AfterAction(i).val)
              IN /\ AfterAction(i).ok
                 /\ new.errors \subseteq base.errors
                 /\ new.errors = base.errors => new.warnings \subseteq base.warnings
                 /\ new # base
                 /\ actions[i].kind = "quickfix" =>
                       <<actions[i].diagnostics[1].code, actions[i].diagnostics[1].pointer>>
                          \notin new.errors \cup new.warnings
        /\ \A i \in Offered({"quickfix"}) :
              actions[i].diagnostics[1].code = "MissingReturn"
                 => ~DeclaresReturn(actions[i].diagnostics[1])
\* an answer with a quick fix and a fix-all for a document that has errors
C1_Witness ==
    /\ pc = "answered"
    /\ Offered({"quickfix"}) # {}
    /\ Offered({"source.fixAll"}) # {}
    /\ SummaryOf(module).errors # {}

\* C3 (minimal-edit equivalence): for every quick fix that on_code_action
\* returns, the text after its edits parses, and the canonical text of the
\* parsed value is the canonical text of the open document's module with the
\* suggester's patch for the diagnostic applied -- for the edits of one
\* operation and for the replacement of the whole document.
C3_MinimalEditEquivalence ==
    pc = "answered" =>
        \A i \in Offered({"quickfix"}) :
            LET d == actions[i].diagnostics[1]
                patch == RepairSuggest("suggest_patches",
                                       <<module, <<Issue(d.pointer, d.code, "error")>>>>)
                patched == apply_patch(module, patch)
            IN /\ AfterAction(i).ok
               /\ patched.ok
               /\ dumps_canonical(AfterAction(i).val) = dumps_canonical(patched.doc)
\* an answer with a quick fix whose edits are not the replacement of the
\* whole document, and one whose edit is
C3_Witness ==
    /\ pc = "answered"
    /\ \E i, j \in Offered({"quickfix"}) :
          /\ \A k \in 1..Len(actions[i].edits) : actions[i].edits[k].range # _full_range(text)
          /\ actions[j].edits[1].range = _full_range(text)



(***************************************************************************)
(* SpecPointer: parse_with_positions on a text, then resolve on each of    *)
(* the pointers it recorded                                                *)
(***************************************************************************)
\* The texts: objects and lists nested up to two deep, their keys among "",
\* "a", "a/b" and "m~n", on one line and indented.
PointerKeys == {"", "a", "a/b", "m~n"}
PointerLeaves == {JNum(1), JNull, JArr(<<>>), JObj(<<>>, <<>>)}
PointerInner ==
    PointerLeaves
    \cup {JObj(<<k>>, <<v>>) : k \in PointerKeys, v \in PointerLeaves}
    \cup {JArr(<<v>>) : v \in PointerLeaves}
PointerDocs ==
    PointerInner
    \cup {JObj(<<k>>, <<v>>) : k \in PointerKeys, v \in PointerInner}
    \cup {JObj(<<kh[1], kh[2]>>, <<JNum(1), JNum(2)>>) :
              kh \in {x \in PointerKeys \X PointerKeys : x[1] # x[2]}}
    \cup {JArr(<<JNum(2), v>>) : v \in PointerInner}
PointerTexts ==
    {json_dumps(d) : d \in PointerDocs} \cup {json_dumps_indent(d) \o <<NL>> : d \in PointerDocs}
NoParse == [ok |-> FALSE, val |-> JNull, i |-> 0, spans |-> EmptyMap, pair_spans |-> EmptyMap]
NoLookup == [pointer |-> <<>>, resolved |-> [ok |-> FALSE, val |-> JNull],
             slice |-> [ok |-> FALSE, val |-> JNull]]

InitPointer ==
    /\ text \in PointerTexts
    /\ module = JNull
    /\ issues = <<>>
    /\ before = <<>>
    /\ pc = "text"
    /\ it = 0
    /\ last = "init"
    /\ run = NoParse
    /\ actions = NoLookup

\* value, spans, pair_spans = parse_with_positions(text)
ParseWithPositions ==
    /\ pc = "text"
    /\ LET r == Jsonpos("parse_with_positions", <<text>>)
       IN /\ run' = r
          /\ module' = r.val
          /\ pc' = IF r.ok THEN "parsed" ELSE "JsonPosError"
    /\ last' = "parse_with_positions"
    /\ UNCHANGED <<issues, before, it, text, actions>>

\* for a pointer p of spans: resolve(value, p) and json.loads(text[start:end])
ResolveRecorded ==
    /\ pc \in {"parsed", "resolved"}
    /\ \E p \in DOMAIN run.spans :
          actions' = [pointer |-> p,
                      resolved |-> resolve(module, p),
                      slice |-> json_loads(SubSeq(text, run.spans[p][1] + 1, run.spans[p][2]))]
    /\ pc' = "resolved"
    /\ last' = "resolve"
    /\ UNCHANGED <<module, issues, before, it, run, text>>

NextPointer == ParseWithPositions \/ ResolveRecorded
SpecPointer == InitPointer /\ [][NextPointer]_vars

\* C11 (pointer round trip): for every pointer p that parse_with_positions
\* recorded in spans, resolve(value, p) returns the node parsed at p, and the
\* text of p's span parses to an equal value; also for keys that are empty or
\* hold "/" or "~", at the root and nested.
C11_PointerRoundTrip ==
    pc = "resolved"
    => /\ actions.slice.ok
       /\ actions.resolved.ok
       /\ actions.resolved.val = actions.slice.val

(***************************************************************************)
(* SpecPatch: apply_patch on a copy of a document, with two operations in  *)
(* either order                                                            *)
(***************************************************************************)
\* The documents and the operations: add, replace and remove at the members
\* of an object, at the elements of a list and below a list element.
PatchDocs ==
    {JObj(<<"args", "metadata", "x">>,
          <<JArr(xs), JObj(<<"a", "b">>, <<JNum(1), JNum(2)>>), JNum(0)>>) :
        xs \in {<<JNum(1), JNum(2), JNum(3)>>,
                <<JObj(<<"a">>, <<JNum(1)>>), JObj(<<"a">>, <<JNum(2)>>)>>}}
PatchPaths ==
    {<<"args", "0">>, <<"args", "1">>, <<"args", "2">>, <<"args", "-">>,
     <<"args", "0", "a">>, <<"args", "1", "a">>,
     <<"metadata", "a">>, <<"metadata", "b">>, <<"metadata", "y">>, <<"x">>, <<"metadata">>}
PatchOps(value) ==
    {PatchOp("remove", path) : path \in PatchPaths}
    \cup {PatchOpV(kind, path, value) : kind \in {"add", "replace"}, path \in PatchPaths}
IsPrefix(p, q) == Len(p) <= Len(q) /\ SubSeq(q, 1, Len(p)) = p
\* two operations address disjoint sub-trees: neither path lies at or below
\* the other
Disjoint(P, Q) == ~IsPrefix(PathOf(P), PathOf(Q)) /\ ~IsPrefix(PathOf(Q), PathOf(P))
NoPatch == [ok |-> FALSE, doc |-> JNull]

InitPatch ==
    /\ module \in PatchDocs
    /\ before \in {<<P, Q>> : P \in PatchOps(JNum(8)), Q \in PatchOps(JNum(9))}
    /\ Disjoint(before[1], before[2])
    /\ issues = <<>>
    /\ pc = "loaded"
    /\ it = 0
    /\ last = "init"
    /\ run = NoPatch
    /\ actions = NoPatch
    /\ text = <<>>

\* apply_patch(copy.deepcopy(M), [P, Q]) and apply_patch(copy.deepcopy(M), [Q, P])
ApplyBothOrders ==
    /\ pc = "loaded"
    /\ run' = apply_patch(module, <<before[1], before[2]>>)
    /\ actions' = apply_patch(module, <<before[2], before[1]>>)
    /\ pc' = "applied"
    /\ last' = "apply_patch"
    /\ UNCHANGED <<module, issues, before, it, text>>

NextPatch == ApplyBothOrders
SpecPatch == InitPatch /\ [][NextPatch]_vars

\* C12 (patches on disjoint paths commute): for two operations P and Q (add,
\* replace or remove) on disjoint sub-trees of M, also on different elements
\* of one list, apply_patch(M, [P, Q]) and apply_patch(M, [Q, P]) have the
\* same canonical text.
C12_DisjointPatchesCommute ==
    (pc = "applied" /\ run.ok /\ actions.ok)
    => dumps_canonical(run.doc) = dumps_canonical(actions.doc)

(***************************************************************************)
(* SpecIndex: TextIndex(text) on the spans parse_with_positions recorded   *)
(***************************************************************************)
\* The texts: documents with strings that hold a character of two UTF-16
\* code units, as keys and as values, in the four layouts.
IndexDocs ==
    {JObj(<<Astral, "a">>, <<JStr(Astral), JArr(<<JStr(Astral), JNum(1)>>)>>),
     JObj(<<"a">>, <<JStr(Astral)>>),
     JArr(<<JStr(Astral), JStr(Astral), JObj(<<"a", Astral>>, <<JNum(1), JNull>>)>>),
     JArr(<<JNum(1), JObj(<<>>, <<>>)>>),
     Module(<<LspFunction("f", <<"x">>, "", <<"pure">>,
                          <<ExprStmt(Call("print", <<JStr(Astral)>>)), ReturnStmt(JNull)>>)>>)}
IndexTexts == {Layout(ast, layout) : ast \in IndexDocs, layout \in Layouts}
NoConversion == [index |-> 0, position |-> Position(0, 0), offset |-> 0]

InitIndex ==
    /\ text \in IndexTexts
    /\ module = JNull
    /\ issues = <<>>
    /\ before = <<>>
    /\ pc = "text"
    /\ it = 0
    /\ last = "init"
    /\ run = NoParse
    /\ actions = NoConversion

\* for the start or the end i of a recorded span: TextIndex(text).position(i),
\* and TextIndex(text).offset of that position's line and character
PositionThenOffset ==
    /\ pc \in {"parsed", "converted"}
    /\ \E p \in DOMAIN run.spans, side \in 1..2 :
          LET i == run.spans[p][side]
              pos == position(text, i)
          IN actions' = [index |-> i, position |-> pos,
                         offset |-> offset(text, pos.line, pos.character)]
    /\ pc' = "converted"
    /\ last' = "offset"
    /\ UNCHANGED <<module, issues, before, it, run, text>>

NextIndex == ParseWithPositions \/ PositionThenOffset
SpecIndex == InitIndex /\ [][NextIndex]_vars

\* C13 (UTF-16 position fidelity): for the start and the end i of every span
\* the parser recorded, offset(position(i)) = i, on texts of several lines and
\* with characters of two UTF-16 code units.
C13_PositionFidelity == pc = "converted" => actions.offset = actions.index
\* reached: an index on a later line, behind a two-unit character of that line
C13_Witness ==
    /\ pc = "converted"
    /\ actions.position.line > 0
    /\ actions.position.character
         > actions.index - TextIndexStarts(text)[actions.position.line + 1]
    /\ actions.offset = actions.index

(***************************************************************************)
(* propcheck.py: the shrinkers and the property runner                     *)
(***************************************************************************)
\* int(cur / 2): the quotient, rounded toward zero
HalfTowardZero(n) == IF n >= 0 THEN n \div 2 ELSE -((-n) \div 2)
\* the loop of shrink_int: cur = int(cur / 2), yielded while it is not 0
RECURSIVE Halves(_)
Halves(cur) ==
    IF cur = 0 \/ HalfTowardZero(cur) = 0 THEN <<>>
    ELSE <<HalfTowardZero(cur)>> \o Halves(HalfTowardZero(cur))
\* shrink_int(n): the candidates in the order they are yielded
shrink_int(n) == IF n = 0 THEN <<>> ELSE <<0, 1, -1>> \o Halves(n)
\* shrink_list(xs): the empty list, the halves, xs without one element
shrink_list(xs) ==
    LET n == Len(xs)
    IN (IF n > 0 THEN <<<<>>>> ELSE <<>>)
       \o (IF n >= 2 THEN <<SubSeq(xs, 1, n \div 2), SubSeq(xs, n \div 2 + 1, n)>> ELSE <<>>)
       \o [i \in 1..n |-> RemoveAt(xs, i)]
\* _subst_typevars(t, mapping): every type parameter defaults to Int
RECURSIVE _subst_typevars(_)
_subst_typevars(t) ==
    CASE t.k = "Var" -> Prim("Int")
      [] t.k \in {"List", "Record"} -> [t EXCEPT !.e = [i \in 1..Len(t.e) |-> _subst_typevars(t.e[i])]]
      [] OTHER -> t
\* shrink_value(t, v): the candidates in the order they are yielded
RECURSIVE shrink_value(_, _)
shrink_value(t0, v) ==
    LET t == _subst_typevars(t0)
        ints == IF IsNum(v) THEN [j \in 1..Len(shrink_int(v.n)) |-> JNum(shrink_int(v.n)[j])]
                ELSE <<>>
        lists == [j \in 1..Len(shrink_list(v.vs)) |-> JArr(shrink_list(v.vs)[j])]
        within(i, elem_type) ==
            LET cands == shrink_value(elem_type, v.vs[i])
            IN [j \in 1..Len(cands) |-> [v EXCEPT !.vs[i] = cands[j]]]
    IN CASE t.k = "Any" -> ints
         [] t.k = "Prim" /\ t.n = "Int" -> ints
         [] t.k = "Prim" /\ t.n = "Bool" -> IF v = JTrue THEN <<JFalse>> ELSE <<>>
         [] t.k = "Prim" /\ t.n = "String" ->
              IF IsStr(v) /\ v.s # "" /\ v.s \in Range(Strs)
              THEN <<JStr(""), JStr(Strs[StrLen(v.s) \div 2 + 1])>>
              ELSE <<>>
         [] t.k = "List" /\ IsList(v) ->
              lists \o Flatten([i \in 1..Len(v.vs) |-> within(i, t.e[1])])
         [] t.k = "Record" /\ IsDict(v) ->
              Flatten([f \in 1..Len(t.ks) |->
                          IF Has(v, t.ks[f])
                          THEN within(CHOOSE i \in 1..Len(v.ks) : v.ks[i] = t.ks[f], t.e[f])
                          ELSE <<>>])
         [] OTHER -> <<>>

\* What run_property_for_function hands to minimize_failure for the first
\* property of the module: the function's name, parameters and parameter
\* types, the postcondition and the allowed effects.
PropContext(mod) ==
    LET ptest == Get(mod, "properties").vs[1]
        fn == UserFunc(mod, Get(ptest, "fn").s)
        params == SelectSeq(Params(fn).vs, IsStr)
        pt_raw == GetOr(fn, "param_types", JNull)
    IN [module |-> mod,
        fn_name |-> Get(fn, "name").s,
        param_names |-> [j \in 1..Len(params) |-> params[j].s],
        param_types |-> IF IsList(pt_raw) /\ Len(pt_raw.vs) = Len(params)
                        THEN [j \in 1..Len(params) |-> parse_type_expr(pt_raw.vs[j].s)]
                        ELSE [j \in 1..Len(params) |-> AnyType],
        post_expr |-> Get(Get(ptest, "expect"), "post"),
        allowed_effects |-> {"pure"}]

\* Propcheck(op, a) is a call by name made from propcheck.py, a the argument
\* tuple.
RECURSIVE Propcheck(_, _)

\* the end of fails(candidate_args), given what run_module returned: the
\* postcondition is evaluated in the environment of the arguments and result
post_fails(ctx, candidate_args, result) ==
    LET zipped == IF Len(ctx.param_names) < Len(candidate_args) THEN Len(ctx.param_names)
                  ELSE Len(candidate_args)
        env == [p \in {ctx.param_names[j] : j \in 1..zipped} \cup {"result"} |->
                   IF p = "result" THEN result.val
                   ELSE candidate_args[CHOOSE j \in 1..zipped :
                            ctx.param_names[j] = p
                            /\ \A m \in (j + 1)..zipped : ctx.param_names[m] # p]]
    IN IF result.st # "ok" THEN TRUE
       ELSE \E ok \in {Interp("eval_expr", <<ctx.post_expr, env, ctx.module, "", 0, result.w>>)} :
               ok.st # "ok" \/ ~Truthy(ok.val)

\* fails(candidate_args) of minimize_failure: the run raises, or the
\* postcondition raises or is falsy
fails(ctx, candidate_args) ==
    Propcheck("post_fails",
              <<ctx, candidate_args,
                Interp("run_module", <<ctx.module, ctx.fn_name, candidate_args,
                                       ctx.allowed_effects, FALSE>>)>>)

\* `for cand in shrink_value(...)` from candidate j on: the index of the
\* first candidate whose trial fails, 0 when there is none
first_failing(ctx, cur, i, cands, j) ==
    IF j > Len(cands) THEN 0
    ELSE IF Propcheck("fails", <<ctx, [cur EXCEPT ![i] = cands[j]]>>) THEN j
    ELSE Propcheck("first_failing", <<ctx, cur, i, cands, j + 1>>)

\* a pass that adopts the first candidate of each argument without running it
RECURSIVE minimize_pass_unchecked(_, _, _, _)
minimize_pass_unchecked(ctx, i, cur, changed) ==
    IF i > Len(cur) THEN [cur |-> cur, changed |-> changed]
    ELSE LET t == IF i <= Len(ctx.param_types) THEN ctx.param_types[i] ELSE AnyType
             cands == shrink_value(t, cur[i])
         IN IF Len(cands) = 0 THEN minimize_pass_unchecked(ctx, i + 1, cur, changed)
            ELSE minimize_pass_unchecked(ctx, i + 1, [cur EXCEPT ![i] = cands[1]], TRUE)

\* the end of a turn of `for i in range(len(cur))`: candidate j of cands is
\* adopted (cur = trial, changed = True, break), or none when j = 0, and the
\* pass goes on with the next argument
adopt(ctx, i, cur, changed, cands, j) ==
    IF j = 0 THEN Propcheck("minimize_pass", <<ctx, i + 1, cur, changed>>)
    ELSE Propcheck("minimize_pass", <<ctx, i + 1, [cur EXCEPT ![i] = cands[j]], TRUE>>)

\* One pass of minimize_failure's `while changed` loop, from argument i on:
\* for each argument the first candidate that still fails is adopted.
minimize_pass(ctx, i, cur, changed) ==
    IF i > Len(cur) THEN [cur |-> cur, changed |-> changed]
    ELSE LET t == IF i <= Len(ctx.param_types) THEN ctx.param_types[i] ELSE AnyType
             cands == Tuple(shrink_value(t, cur[i]))
         IN Propcheck("adopt", <<ctx, i, cur, changed, cands,
                                 Propcheck("first_failing", <<ctx, cur, i, cands, 1>>)>>)

Propcheck(op, a) ==
    CASE op = "post_fails" /\ Len(a) = 3 -> post_fails(a[1], a[2], a[3])
      [] op = "fails" /\ Len(a) = 2 -> fails(a[1], a[2])
      [] op = "first_failing" /\ Len(a) = 5 -> first_failing(a[1], a[2], a[3], a[4], a[5])
      [] op = "adopt" /\ Len(a) = 6 -> adopt(a[1], a[2], a[3], a[4], a[5], a[6])
      [] op = "minimize_pass" /\ Len(a) = 4 -> minimize_pass(a[1], a[2], a[3], a[4])

(***************************************************************************)
(* SpecShrink: run_property_for_function on one generated case             *)
(***************************************************************************)
\* The property modules: one function and one property whose postcondition
\* is result == true.
PropModule(name, params, param_types, body) ==
    JObj(<<"module", "functions", "properties">>,
         <<JStr("m"),
           JArr(<<JObj(<<"name", "params">>
                         \o (IF param_types = <<>> THEN <<>> ELSE <<"param_types">>)
                         \o <<"effects", "body">>,
                       <<JStr(name), StrList(params)>>
                         \o (IF param_types = <<>> THEN <<>> ELSE <<StrList(param_types)>>)
                         \o <<StrList(<<"pure">>), JArr(<<ReturnStmt(body)>>)>>)>>),
           JArr(<<JObj(<<"name", "fn", "expect">>,
                       <<JStr("p"), JStr(name),
                         JObj(<<"post">>, <<Call("eq", <<VarRef("result"), JTrue>>)>>)>>)>>)>>)
PropModules ==
    {PropModule("sum_is_nonneg", <<"xs">>, <<"List[Int]">>,
                Call("gte", <<Call("list_sum", <<VarRef("xs")>>), JNum(0)>>))}
    \cup {PropModule("below", <<"x">>, <<"Int">>, Call("lt", <<VarRef("x"), JNum(k)>>)) :
             k \in 0..3}
    \cup {PropModule("near", <<"x", "y">>, <<"Int", "Int">>,
                     Call("lt", <<Call("add", <<VarRef("x"), VarRef("y")>>), JNum(2)>>)),
          PropModule("untyped", <<"x">>, <<>>, Call("lt", <<VarRef("x"), JNum(2)>>)),
          PropModule("flag", <<"b">>, <<"Bool">>, Call("not", <<VarRef("b")>>))}
\* the values gen_value draws: integers within MaxInt of 0, lists of up to
\* MaxListLen of them
MaxInt == 3
MaxListLen == 2
GenValues(t) ==
    CASE t.k = "List" -> {JArr(xs) : xs \in SeqsUpTo({JNum(n) : n \in (-MaxInt)..MaxInt}, MaxListLen)}
      [] t.k = "Prim" /\ t.n = "Bool" -> {JTrue, JFalse}
      [] OTHER -> {JNum(n) : n \in (-MaxInt)..MaxInt}
RECURSIVE GenTuples(_)
GenTuples(types) ==
    IF Len(types) = 0 THEN {<<>>}
    ELSE {<<v>> \o rest : v \in GenValues(Head(types)), rest \in GenTuples(Tail(types))}
GenArgs(mod) == GenTuples(PropContext(mod).param_types)
NoResult == [ok |-> TRUE, failing_args |-> <<>>, minimized_args |-> <<>>]

InitShrink ==
    /\ \E mod \in PropModules : module = mod /\ before \in GenArgs(mod)
    /\ issues = <<>>
    /\ pc = "generated"
    /\ it = 0
    /\ last = "gen_value"
    /\ run = [cur |-> <<>>, seen |-> {}]
    /\ text = <<>>
    /\ actions = NoResult

\* one case of run_property_for_function: run the function on the generated
\* arguments and evaluate the postcondition
RunCase ==
    /\ pc = "generated"
    /\ IF Propcheck("fails", <<PropContext(module), before>>)
       THEN pc' = "shrinking" /\ run' = [cur |-> before, seen |-> {}]
       ELSE pc' = "passed" /\ run' = run
    /\ last' = "run_module"
    /\ UNCHANGED <<module, issues, before, it, text, actions>>

\* one turn of minimize_failure's `while changed` loop; when nothing changed
\* the loop ends and the runner reports PropResult(False, ...).  run.seen is
\* the history of the loop: the tuples cur held at the start of earlier turns.
MinimizePass ==
    /\ pc = "shrinking"
    /\ \E r \in {Propcheck("minimize_pass", <<PropContext(module), 1, run.cur, FALSE>>)} :
          IF r.changed
          THEN /\ run' = [cur |-> r.cur, seen |-> run.seen \cup {run.cur}]
               /\ UNCHANGED <<pc, actions>>
          ELSE /\ pc' = "reported"
               /\ actions' = [ok |-> FALSE, failing_args |-> before, minimized_args |-> r.cur]
               /\ run' = run
    /\ last' = "minimize_failure"
    /\ UNCHANGED <<module, issues, before, it, text>>

NextShrink == RunCase \/ MinimizePass
SpecShrink == InitShrink /\ [][NextShrink]_vars

\* the single shrink candidates of the argument tuple args
ShrinkFrontier(ctx, args) ==
    UNION {{[args EXCEPT ![i] = cand] :
               cand \in Range(shrink_value(IF i <= Len(ctx.param_types) THEN ctx.param_types[i]
                                           ELSE AnyType, args[i]))} :
              i \in 1..Len(args)}

\* C14 (shrinker monotonicity): when minimize_failure returns, the returned
\* tuple still fails, and no single shrink candidate of one of its arguments
\* fails.
C14_ShrinkerLocalMinimum ==
    pc = "reported"
    => /\ Propcheck("fails", <<PropContext(module), actions.minimized_args>>)
       /\ \A trial \in ShrinkFrontier(PropContext(module), actions.minimized_args) :
             ~Propcheck("fails", <<PropContext(module), trial>>)
\* reached: a report whose minimised arguments are smaller than the generated
\* ones and still have shrink candidates
C14_Witness ==
    /\ pc = "reported"
    /\ actions.minimized_args # actions.failing_args
    /\ ShrinkFrontier(PropContext(module), actions.minimized_args) # {}

\* C15 (shrinking terminates): minimize_failure returns after finitely many
\* turns.  A turn is a function of cur alone, so the loop returns exactly when
\* it never starts a turn with a tuple it already started a turn with.
C15_ShrinkTerminates == pc = "shrinking" => run.cur \notin run.seen

(***************************************************************************)
(* test_runner.py: test cases run one after another in one process.  The   *)
(* process-wide state of runtime_guarded (_allowed_effects, _dispatch) is  *)
(* what the last run_module left.                                          *)
(***************************************************************************)
\* the interpreter's process-wide state: allowed is _allowed_effects and
\* dispatch the module the installed dispatcher was built for (JNull: None)
Process(allowed, dispatchModule) == [allowed |-> allowed, dispatch |-> dispatchModule]

\* the steps of run_testcase call one another by name
RECURSIVE Testrun(_, _)

\* (False, None, None, str(e)), and what run_testcase did on the way
TestError(fault, args, called, proc) ==
    [ok |-> FALSE, actual |-> JNull, expected |-> JNull, err |-> fault,
     args |-> [st |-> args.st, val |-> args.val, fault |-> args.fault],
     called |-> called, proc |-> proc]

\* run_testcase after run_module: (actual == expected, actual, expected, None)
compare(args, expected, actual) ==
    IF actual.st # "ok"
    THEN TestError(actual.fault, args, TRUE, Process(actual.w.allowed, actual.w.dispatch))
    ELSE [ok |-> PyEq(actual.val, expected.val), actual |-> actual.val,
          expected |-> expected.val, err |-> "",
          args |-> [st |-> args.st, val |-> args.val, fault |-> args.fault],
          called |-> TRUE, proc |-> Process(actual.w.allowed, actual.w.dispatch)]

\* run_testcase after expected = _eval(expect_expr, module)
run_actual(mod, fn_name, allowed_effects, proc, args, expected) ==
    IF expected.st # "ok" THEN TestError(expected.fault, args, FALSE, proc)
    ELSE Testrun("compare", <<args, expected,
                              Interp("run_module", <<mod, fn_name, args.val.vs,
                                                     allowed_effects, FALSE>>)>>)

\* run_testcase after args = [_eval(a, module) for a in args_exprs]
eval_expected(mod, fn_name, expect_expr, allowed_effects, proc, args) ==
    IF args.st # "ok" THEN TestError(args.fault, args, FALSE, proc)
    ELSE Testrun("run_actual",
                 <<mod, fn_name, allowed_effects, proc, args,
                   Interp("eval_expr", <<expect_expr, EmptyMap, mod, "", 0,
                                         World(proc.allowed, proc.dispatch, FALSE)>>)>>)

\* run_testcase(module, fn_name, args_exprs, expect_expr, allowed_effects) in
\* the process state proc: _eval evaluates in an empty environment, outside
\* any run
run_testcase(mod, fn_name, args_exprs, expect_expr, allowed_effects, proc) ==
    Testrun("eval_expected",
            <<mod, fn_name, expect_expr, allowed_effects, proc,
              Interp("eval_each", <<args_exprs, 1, EmptyMap, mod, "", 0,
                                    World(proc.allowed, proc.dispatch, FALSE)>>)>>)

Testrun(op, a) ==
    CASE op = "compare" /\ Len(a) = 3 -> compare(a[1], a[2], a[3])
      [] op = "run_actual" /\ Len(a) = 6 -> run_actual(a[1], a[2], a[3], a[4], a[5], a[6])
      [] op = "eval_expected" /\ Len(a) = 6 -> eval_expected(a[1], a[2], a[3], a[4], a[5], a[6])
      [] op = "run_testcase" /\ Len(a) = 6 -> run_testcase(a[1], a[2], a[3], a[4], a[5], a[6])

\* Test modules: f(x) returns x; g(y) returns y + k, or is not defined
TestModule(g) ==
    Module(<<Function("f", <<"x">>, <<"pure">>, <<ReturnStmt(VarRef("x"))>>)>> \o g)
TestModules ==
    {TestModule(<<>>)} \cup
    {TestModule(<<Function("g", <<"y">>, <<"pure">>,
                           <<ReturnStmt(Call("add", <<VarRef("y"), JNum(k)>>))>>)>>) :
        k \in 1..2}
\* list_map("g", [1]), a higher-order call in a test's args or expect
MapG == Call("list_map", <<JStr("g"), ListExpr(<<JNum(1)>>)>>)
TestExprs == {MapG, JNum(0), ListExpr(<<JNum(2)>>)}
\* f, and a function no test module defines
TestFns == {"f", "h"}

InitTests ==
    /\ module \in TestModules
    /\ issues = <<>>
    /\ before = <<>>
    /\ pc = "loaded"
    /\ it = 0
    /\ last = "load"
    /\ run = Process({"pure"}, JNull)
    /\ text = <<>>
    /\ actions = <<>>

\* run_tests reaches one test case of the module
RunTestcase ==
    /\ \E fn \in TestFns, arg \in TestExprs, expect \in TestExprs,
          allowed_effects \in {{"pure"}, {"io.print"}} :
          \E t \in {Testrun("run_testcase", <<module, fn, <<arg>>, expect, allowed_effects, run>>)} :
              /\ actions' = [fn |-> fn, arg |-> arg, expect |-> expect, ok |-> t.ok,
                             actual |-> t.actual, expected |-> t.expected, err |-> t.err,
                             args |-> t.args, called |-> t.called]
              /\ run' = t.proc
    /\ pc' = "tested"
    /\ last' = "run_testcase"
    /\ UNCHANGED <<module, issues, before, it, text>>

\* the host goes on to another module in the same process (the repair loop
\* gates every patched module with run_tests)
LoadModule ==
    /\ pc = "tested"
    /\ module' \in TestModules \ {module}
    /\ pc' = "loaded"
    /\ last' = "load"
    /\ UNCHANGED <<issues, before, it, run, text, actions>>

NextTests == RunTestcase \/ LoadModule
SpecTests == InitTests /\ [][NextTests]_vars

\* C16 (dispatcher lifecycle): once run_module has returned or faulted no
\* dispatcher is installed, and a list_map in a test's args expression, which
\* is evaluated outside a run, raises the missing-dispatcher fault.
C16_DispatcherLifecycle ==
    pc = "tested"
    => /\ actions.called => IsNone(run.dispatch)
       /\ actions.arg = MapG
          => actions.args.st = "fault" /\ actions.args.fault = "RuntimeError"

(***************************************************************************)
(* Two invocations of run_module in one process, e.g. from two threads of  *)
(* a host: each sets the process-wide allow-list and dispatcher on entry   *)
(* and then executes the statements of f one by one; the other invocation  *)
(* may take its steps in between.                                          *)
(***************************************************************************)
Invocations == 1..2
NotEntered == [allowed |-> {}, st |-> "new", i |-> 0, env |-> EmptyMap, out |-> <<>>, fault |-> ""]

InitInterleave ==
    /\ module \in GateModules
    /\ issues = <<>>
    /\ before = <<>>
    /\ pc = "loaded"
    /\ it = 0
    /\ last = "load"
    /\ run = [i \in Invocations |-> NotEntered]
    /\ text = <<>>
    /\ actions = Process({"pure"}, JNull)

\* run_module up to the call of f: set_allowed_effects, set_dispatch, and the
\* environment call_user binds
Enter(i) ==
    /\ run[i].st = "new"
    /\ \E allowed_effects \in AllowSets :
          /\ actions' = Process(set_allowed_effects(allowed_effects), module)
          /\ run' = [run EXCEPT ![i] = [allowed |-> allowed_effects, st |-> "running", i |-> 1,
                                        env |-> Put(EmptyMap, "x", JStr("a")),
                                        out |-> <<>>, fault |-> ""]]
    /\ pc' = "running"
    /\ last' = "run_module"
    /\ UNCHANGED <<module, issues, before, it, text>>

\* exec_block's next statement of f in invocation i: its builtins read the
\* allow-list and the dispatcher the process holds at that moment
Step(i) ==
    /\ run[i].st = "running"
    /\ IF run[i].i > Len(Body(UserFunc(module, "f")))
       THEN run' = [run EXCEPT ![i].st = "done"]
       ELSE \E r \in {Interp("exec_stmt", <<Body(UserFunc(module, "f"))[run[i].i], run[i].env,
                                            module, "f", 1,
                                            World(actions.allowed, actions.dispatch, FALSE)>>)} :
               run' = [run EXCEPT ![i] = [allowed |-> run[i].allowed,
                                          st |-> CASE r.st = "ok" -> "running"
                                                   [] r.st = "return" -> "done"
                                                   [] OTHER -> "fault",
                                          i |-> run[i].i + 1,
                                          env |-> r.env,
                                          out |-> run[i].out \o r.w.out,
                                          fault |-> r.fault]]
    /\ last' = "exec_stmt"
    /\ UNCHANGED <<module, issues, before, pc, it, text, actions>>

NextInterleave == \E i \in Invocations : Enter(i) \/ Step(i)
SpecInterleave == InitInterleave /\ [][NextInterleave]_vars

\* the side effects invocation i has performed
PerformedBy(i) == {run[i].out[k].effect : k \in 1..Len(run[i].out)}

\* C17 (one allow-list per call): every effect check made for invocation i is
\* evaluated against the allow-list Ai it was started with: it performs no
\* effect outside Ai, and when Ai holds every effect of the builtins it is
\* never refused one.
C17_OneAllowListPerCall ==
    \A i \in Invocations :
        /\ PerformedBy(i) \subseteq set_allowed_effects(run[i].allowed)
        /\ run[i].allowed = {"io.print", "net.http"} => run[i].fault # "EffectError"

(***************************************************************************)
(* SpecPatchErrors: apply_patch on one operation, well-formed or not, in   *)
(* range or not                                                            *)
(***************************************************************************)
\* documents whose list args has 0, 2 or 3 elements
RangeDocs ==
    PatchDocs \cup {JObj(<<"args", "metadata", "x">>,
                         <<JArr(<<>>), JObj(<<"a", "b">>, <<JNum(1), JNum(2)>>), JNum(0)>>)}
\* the indices 0..MaxIndex of args, its end "-", and members of objects
MaxIndex == 4
RangePaths ==
    {<<"args", IdxStr(i)>> : i \in 0..MaxIndex}
    \cup {<<"args", "-">>, <<"args", "0", "a">>, <<"metadata", "a">>, <<"metadata", "y">>, <<"x">>}
\* operations the code names as errors whatever the document: an unknown op,
\* a path that is not a string, add and replace without value
MalformedOps ==
    {PatchOpV("move", <<"x">>, JNum(8)), PatchOp("add", <<"x">>),
     PatchOp("replace", <<"args", "0">>),
     JObj(<<"op", "path", "value">>, <<JStr("add"), JNum(7), JNum(8)>>),
     JObj(<<"op", "value">>, <<JStr("replace"), JNum(8)>>),
     JObj(<<"path">>, <<JArr(<<JStr("x")>>)>>)}
RangeOps ==
    {PatchOp("remove", path) : path \in RangePaths}
    \cup {PatchOpV(kind, path, value) :
             kind \in {"add", "replace"}, path \in RangePaths, value \in {JNum(8), JArr(<<>>)}}
    \cup MalformedOps

InitPatchErrors ==
    /\ module \in RangeDocs
    /\ before \in {<<op>> : op \in RangeOps}
    /\ issues = <<>>
    /\ pc = "loaded"
    /\ it = 0
    /\ last = "init"
    /\ run = NoPatch
    /\ actions = NoPatch
    /\ text = <<>>

\* apply_patch(copy.deepcopy(M), [op])
ApplyPatch ==
    /\ pc = "loaded"
    /\ run' = apply_patch(module, before)
    /\ pc' = "applied"
    /\ last' = "apply_patch"
    /\ UNCHANGED <<module, issues, before, it, text, actions>>

NextPatchErrors == ApplyPatch
SpecPatchErrors == InitPatchErrors /\ [][NextPatchErrors]_vars

\* op addresses an element of a list of doc by a numeric index that is out of
\* range: beyond the length for add, at or beyond it for replace and remove
OutOfRange(doc, op) ==
    /\ op \notin MalformedOps
    /\ LET segs == PathOf(op)
           parent == resolve_segs(doc, SubSeq(segs, 1, Len(segs) - 1))
           key == segs[Len(segs)]
       IN /\ parent.ok /\ IsList(parent.val) /\ IsDigitSeg(key)
          /\ IF Get(op, "op").s = "add" THEN SegInt(key) > Len(parent.val.vs)
             ELSE SegInt(key) >= Len(parent.val.vs)

\* C18 (patch errors): apply_patch signals an error for every operation whose
\* numeric list index is out of range for the target list, as it does for an
\* unknown op, a non-string path and a missing value; it never returns a
\* document for such an operation.
C18_OutOfRangeIsAnError ==
    (pc = "applied" /\ (before[1] \in MalformedOps \/ OutOfRange(module, before[1])))
    => ~run.ok

(***************************************************************************)
(* typecheck.py: the tokenizer and the parser of type expressions, on the  *)
(* characters of an annotation.  ok = FALSE stands for the ValueError the  *)
(* code raises.                                                            *)
(***************************************************************************)
\* the characters of the annotations and identifiers of the model
Chars(expr) ==
    CASE expr = "" -> <<>>
      [] expr = "T" -> <<"T">>
      [] expr = "a" -> <<"a">>
      [] expr = "Int" -> <<"I", "n", "t">>
      [] expr = "Any" -> <<"A", "n", "y">>
      [] expr = "List" -> <<"L", "i", "s", "t">>
      [] expr = "Record" -> <<"R", "e", "c", "o", "r", "d">>
      [] expr = "Int?" -> <<"I", "n", "t", "?">>
      [] expr = "List[" -> <<"L", "i", "s", "t", "[">>
      [] expr = "List[Int]" -> <<"L", "i", "s", "t", "[", "I", "n", "t", "]">>
      [] expr = "List[T]" -> <<"L", "i", "s", "t", "[", "T", "]">>
      [] expr = "List[Int]]" -> <<"L", "i", "s", "t", "[", "I", "n", "t", "]", "]">>
      [] expr = "Record{a}" -> <<"R", "e", "c", "o", "r", "d", "{", "a", "}">>
      [] expr = "Record{a: Int}" ->
         <<"R", "e", "c", "o", "r", "d", "{", "a", ":", " ", "I", "n", "t", "}">>
Idents == {"T", "a", "Int", "Any", "List", "Record"}
TypeTexts ==
    Idents \cup {"", "Int?", "List[", "List[Int]", "List[T]", "List[Int]]", "Record{a}",
                 "Record{a: Int}"}
\* c.isalnum() or c == "_"
IsIdentChar(c) == c \in UNION {Range(Chars(w)) : w \in Idents} \cup {"_"}
TypeTok(kind, tokText) == [kind |-> kind, text |-> tokText]

\* _tokenize(s) from index i on
RECURSIVE tokenize_from(_, _)
tokenize_from(s, i) ==
    IF i > Len(s) THEN [ok |-> TRUE, toks |-> <<>>]
    ELSE IF s[i] = " " THEN tokenize_from(s, i + 1)
    ELSE IF s[i] \in {"[", "]", "{", "}", ":", ","}
    THEN LET rest == tokenize_from(s, i + 1)
         IN [rest EXCEPT !.toks = <<TypeTok(s[i], s[i])>> \o @]
    ELSE LET j == CHOOSE m \in i..(Len(s) + 1) :
                     /\ \A h \in i..(m - 1) : IsIdentChar(s[h])
                     /\ (m = Len(s) + 1 \/ ~IsIdentChar(s[m]))
         IN IF j = i THEN [ok |-> FALSE, toks |-> <<>>]
            ELSE LET rest == tokenize_from(s, j)
                     word == CHOOSE w \in Idents : Chars(w) = SubSeq(s, i, j - 1)
                 IN [rest EXCEPT !.toks = <<TypeTok("IDENT", word)>> \o @]
_tokenize(s) == tokenize_from(s, 1)

\* _Parser over toks at position i: [ok, ty, i]
KindAt(toks, i) == IF i <= Len(toks) THEN toks[i].kind ELSE "EOF"
ParseError == [ok |-> FALSE, ty |-> AnyType, i |-> 0]
Parsed(ty, i) == [ok |-> TRUE, ty |-> ty, i |-> i]
RECURSIVE parse_type(_, _)
RECURSIVE parse_fields(_, _, _, _)
\* the `while True` loop of a Record's fields; a repeated key keeps its place
\* and takes the later type
parse_fields(toks, i, ks, ts) ==
    IF KindAt(toks, i) # "IDENT" \/ KindAt(toks, i + 1) # ":" THEN ParseError
    ELSE LET k == toks[i].text
             v == parse_type(toks, i + 2)
             at == {h \in 1..Len(ks) : ks[h] = k}
             ks1 == IF at = {} THEN Append(ks, k) ELSE ks
             ts1 == IF at = {} THEN Append(ts, v.ty) ELSE [ts EXCEPT ![CHOOSE h \in at : TRUE] = v.ty]
         IN IF ~v.ok THEN ParseError
            ELSE IF KindAt(toks, v.i) = "," THEN parse_fields(toks, v.i + 1, ks1, ts1)
            ELSE IF KindAt(toks, v.i) = "}" THEN Parsed(RecordT(ks1, ts1), v.i + 1)
            ELSE ParseError
parse_type(toks, i) ==
    IF KindAt(toks, i) # "IDENT" THEN ParseError
    ELSE LET name == toks[i].text
         IN IF name = "List"
            THEN IF KindAt(toks, i + 1) # "[" THEN ParseError
                 ELSE LET elem == parse_type(toks, i + 2)
                      IN IF ~elem.ok \/ KindAt(toks, elem.i) # "]" THEN ParseError
                         ELSE Parsed(ListT(elem.ty), elem.i + 1)
            ELSE IF name = "Record"
            THEN IF KindAt(toks, i + 1) # "{" THEN ParseError
                 ELSE IF KindAt(toks, i + 2) = "}" THEN Parsed(RecordT(<<>>, <<>>), i + 3)
                 ELSE parse_fields(toks, i + 2, <<>>, <<>>)
            ELSE IF name = "Any" THEN Parsed(AnyType, i + 1)
            ELSE IF name \in {"Int", "Float", "Bool", "String", "Null"} THEN Parsed(Prim(name), i + 1)
            ELSE Parsed(Var(name), i + 1)

\* parse_type_expr(expr) on the characters of expr: [ok, ty]
parse_type_chars(expr) ==
    LET t == _tokenize(Chars(expr))
        p == parse_type(t.toks, 1)
    IN IF ~t.ok \/ ~p.ok \/ p.i <= Len(t.toks) THEN [ok |-> FALSE, ty |-> AnyType]
       ELSE [ok |-> TRUE, ty |-> p.ty]

(***************************************************************************)
(* SpecAnalysers: semantic.check_module, typecheck.check_module and        *)
(* effects.check_effects on modules with malformed parts.  An outcome is   *)
(* [raised, issues].                                                       *)
(***************************************************************************)
\* _sig_from_function(fn) raises: an entry of param_types is no string
\* (TypeError in _tokenize) or does not parse, or returns does not parse
sig_raises(fn) ==
    LET params == IF IsList(Params(fn)) THEN Params(fn).vs ELSE <<>>
        pt_raw == GetOr(fn, "param_types", JNull)
        ret_raw == GetOr(fn, "returns", JNull)
    IN \/ /\ IsList(pt_raw) /\ Len(pt_raw.vs) = Len(params)
          /\ \E j \in 1..Len(pt_raw.vs) :
                ~IsStr(pt_raw.vs[j]) \/ ~parse_type_chars(pt_raw.vs[j].s).ok
       \/ IsStr(ret_raw) /\ ~parse_type_chars(ret_raw.s).ok
\* typecheck.check_module raises while it builds the signatures
typecheck_raises(mod) == \E fn \in Range(Functions(mod)) : HasName(fn) /\ sig_raises(fn)

\* a value Python cannot hash: a list or a dict
Unhashable(v) == IsList(v) \/ IsDict(v)
\* semantic.check_module raises at `p in RESERVED_NAMES`
semantic_raises(mod) ==
    \E fn \in Range(Functions(mod)) :
        /\ HasName(fn) /\ IsList(Params(fn))
        /\ \E j \in 1..Len(Params(fn).vs) : Unhashable(Params(fn).vs[j])
\* effects: set(fn.get("effects", []) or []) raises on a number and on a list
\* with an unhashable entry
effects_raises(mod) ==
    \E fn \in Range(Functions(mod)) :
        /\ HasName(fn)
        /\ LET e == GetOr(fn, "effects", JArr(<<>>))
           IN /\ Truthy(e)
              /\ \/ e.k \in {"num", "bool"}
                 \/ IsList(e) /\ \E j \in 1..Len(e.vs) : Unhashable(e.vs[j])

AnalyserRaised == [raised |-> TRUE, issues |-> <<>>]
Returned(iss) == [raised |-> FALSE, issues |-> iss]

\* Analyser modules: one function f(x) returning x, with one part varied
OptionalKey(key, vals) == IF vals = <<>> THEN <<>> ELSE <<key>>
AnalyserFunction(params, param_types, returns, effects, body) ==
    JObj(<<"name", "params">> \o OptionalKey("param_types", param_types)
           \o OptionalKey("returns", returns) \o <<"effects", "body">>,
         <<JStr("f"), JArr(params)>> \o param_types \o returns \o <<JArr(effects), JArr(body)>>)
AnalyserModules ==
    {Module(<<AnalyserFunction(params, param_types, returns, effects, body)>>) :
        params \in {<<JStr("x")>>, <<JNum(5)>>, <<JArr(<<JStr("x")>>)>>},
        param_types \in {<<>>} \cup {<<JArr(<<t>>)>> :
                            t \in {JNum(5)} \cup {JStr(s) : s \in {"Int", "List[Int]", "List[T]", "",
                                                                  "Int?", "List[", "List[Int]]"}}},
        returns \in {<<>>} \cup {<<JStr(s)>> : s \in {"Int", "Record{a}"}},
        effects \in {<<JStr("pure")>>, <<JArr(<<JStr("pure")>>)>>},
        body \in {<<ReturnStmt(VarRef("x"))>>, <<JNum(5)>>,
                  <<JObj(<<"let", "return">>, <<JNum(5), JNull>>)>>}}

NoOutcome == [semantic |-> Returned(<<>>), typecheck |-> Returned(<<>>), effects |-> Returned(<<>>)]
InitAnalysers ==
    /\ module \in AnalyserModules
    /\ issues = <<>>
    /\ before = <<>>
    /\ pc = "loaded"
    /\ it = 0
    /\ last = "load"
    /\ run = NoOutcome
    /\ text = <<>>
    /\ actions = <<>>

\* the three analysers on the module, as AstraEngine.diagnose and
\* collect_issues call them
Analyse ==
    /\ pc = "loaded"
    /\ \E s \in {IF semantic_raises(module) THEN AnalyserRaised
                 ELSE Returned(Semantic("check_module", <<module>>))},
          t \in {IF typecheck_raises(module) THEN AnalyserRaised
                 ELSE Returned(Typecheck("check_module", <<module>>))},
          e \in {IF effects_raises(module) THEN AnalyserRaised
                 ELSE Returned(Effects("check_effects", <<module>>))} :
          run' = [semantic |-> s, typecheck |-> t, effects |-> e]
    /\ pc' = "analysed"
    /\ last' = "check"
    /\ UNCHANGED <<module, issues, before, it, text, actions>>

NextAnalysers == Analyse
SpecAnalysers == InitAnalysers /\ [][NextAnalysers]_vars

\* C20 (analysers never throw): for every module given as a JSON object each
\* of semantic.check_module, typecheck.check_module and effects.check_effects
\* returns a list of issues and does not raise.
C20_AnalysersNeverThrow ==
    pc = "analysed" => ~run.semantic.raised /\ ~run.typecheck.raised /\ ~run.effects.raised

(***************************************************************************)
(* SpecFixAll: the fix-all part of on_code_action, one step per            *)
(* apply-and-recheck round                                                 *)
(***************************************************************************)
\* Two functions: f declares an effect list and calls print and add; g falls
\* through or returns.
FixAllModules ==
    {Module(<<Function("f", <<>>, e, CallBody(c, r)), Function("g", <<>>, <<"pure">>, b)>>) :
        e \in {<<"pure">>, <<"io.print">>},
        c \in {<<>>, <<"print">>, <<"add">>, <<"print", "add">>},
        r \in BOOLEAN,
        b \in {<<>>, <<ReturnStmt(JNull)>>}}

\* `try: issues1 = ...; patch_next = suggest_patches(stable, issues1)
\*  except Exception: patch_next = []`
recheck(stable) ==
    IF semantic_raises(stable) \/ typecheck_raises(stable) \/ effects_raises(stable)
    THEN <<>>
    ELSE RepairSuggest("suggest_patches", <<stable, check_all(stable)>>)

\* the fix-all computation: the module reached, the patch the suggester
\* proposes for it, and the passes of the while loop
FixAllState(stable, patch_next, passes) ==
    [stable |-> stable, patch_next |-> patch_next, passes |-> passes]

\* a document is open in the editor, its diagnostics are published
InitFixAll ==
    /\ module \in FixAllModules
    /\ text = json_dumps_indent(module) \o <<NL>>
    /\ issues = _diagnostics_for(Document(text))
    /\ before = <<>>
    /\ pc = "open"
    /\ it = 0
    /\ last = "didOpen"
    /\ run = FixAllState(JNull, <<>>, 0)
    /\ actions = <<>>

\* on_code_action up to the end of the loop over the context's diagnostics
\* (the client sends the published diagnostics)
QuickFixes ==
    /\ pc = "open"
    /\ \E doc \in {Document(text)} :
          \E quick \in {Lsp("quick_fixes_for", <<doc, issues>>)} :
             /\ actions' = quick.actions
             /\ pc' = IF quick.raised THEN "internal error"
                      ELSE IF quick.offered_any THEN "fix all" ELSE "answered"
    /\ last' = "quick fixes"
    /\ UNCHANGED <<module, issues, before, it, run, text>>

\* `if offered_any:` patch_all, fixed_all and the first recheck; it counts
\* the rounds of apply_patch followed by the checkers
FixAllFirst ==
    /\ pc = "fix all"
    /\ \E patch_all \in {RepairSuggest("suggest_patches", <<module, check_all(module)>>)} :
          IF patch_all = <<>>
          THEN /\ pc' = "answered" /\ last' = "nothing to fix"
               /\ UNCHANGED <<run, it, before>>
          ELSE \E fixed_all \in {apply_patch(DeepCopy(module), patch_all)} :
                  IF ~fixed_all.ok
                  THEN /\ pc' = "internal error" /\ last' = "apply failed"
                       /\ UNCHANGED <<run, it, before>>
                  ELSE /\ run' = FixAllState(fixed_all.doc, recheck(fixed_all.doc), 0)
                       /\ it' = 1
                       /\ before' = patch_all
                       /\ pc' = "fixed point" /\ last' = "patch_all"
    /\ UNCHANGED <<module, issues, text, actions>>

\* `while patch_next and passes < 5:` one pass
FixAllPass ==
    /\ pc = "fixed point"
    /\ run.patch_next # <<>> /\ run.passes < FixAllPasses
    /\ \E next \in {apply_patch(DeepCopy(run.stable), run.patch_next)} :
          IF ~next.ok
          THEN /\ pc' = "internal error" /\ last' = "apply failed"
               /\ UNCHANGED <<run, it>>
          ELSE /\ run' = FixAllState(next.doc, recheck(next.doc), run.passes + 1)
               /\ it' = it + 1
               /\ pc' = "fixed point" /\ last' = "pass"
    /\ UNCHANGED <<module, issues, before, text, actions>>

\* the loop is left: `if patch_next: stable = None`, and no fix-all action is
\* offered; otherwise the fix-all edits are built from stable
FixAllDecide ==
    /\ pc = "fixed point"
    /\ ~(run.patch_next # <<>> /\ run.passes < FixAllPasses)
    /\ pc' = "answered"
    /\ last' = IF run.patch_next # <<>> THEN "no fix-all" ELSE "fix-all from stable"
    /\ UNCHANGED <<module, issues, before, it, run, text, actions>>

NextFixAll == QuickFixes \/ FixAllFirst \/ FixAllPass \/ FixAllDecide
SpecFixAll == InitFixAll /\ [][NextFixAll]_vars

\* C21 (fix-all is bounded): the fix-all computation applies patches and
\* re-runs the checkers for at most 5 rounds in total; when the suggester
\* still proposes a patch after the bound no fix-all is offered, and a
\* fix-all is built only from a module for which the suggester proposes
\* nothing.
C21_FixAllBounded ==
    /\ it <= FixAllPasses
    /\ last = "no fix-all" => run.patch_next # <<>>
    /\ last = "fix-all from stable"
          => RepairSuggest("suggest_patches", <<run.stable, check_all(run.stable)>>) = <<>>

(***************************************************************************)
(* SpecEnv: one call of a user function, its body executed statement by    *)
(* statement on the call's environment                                     *)
(***************************************************************************)
\* f(x): up to MaxStmts statements that bind y, bind x again, branch or return
EnvStmts ==
    {LetStmt("y", JNum(1)),
     LetStmt("y", Call("add", <<VarRef("x"), JNum(1)>>)),
     LetStmt("x", JNum(2)),
     IfStmt(XBelowOne, <<LetStmt("z", JNum(0))>>, <<LetStmt("x", JNum(5))>>),
     ReturnStmt(VarRef("x"))}
EnvModules ==
    {Module(<<Function("f", <<"x">>, <<"pure">>, body)>>) : body \in SeqsUpTo(EnvStmts, MaxStmts)}
NoCall == [st |-> "new", i |-> 0, env |-> EmptyMap, fault |-> ""]

InitEnv ==
    /\ module \in EnvModules
    /\ issues = <<>>
    /\ before = EmptyMap
    /\ pc = "loaded"
    /\ it = 0
    /\ last = "load"
    /\ run = NoCall
    /\ text = <<>>
    /\ actions = <<>>

\* call_user("f", [arg], fns): env = {p: a for p, a in zip(params, args)}
CallUser ==
    /\ pc = "loaded"
    /\ \E arg \in {JNum(0), JNum(1)} :
          run' = [st |-> "running", i |-> 1, env |-> Put(EmptyMap, "x", arg), fault |-> ""]
    /\ before' = EmptyMap
    /\ pc' = "called"
    /\ last' = "call_user"
    /\ UNCHANGED <<module, issues, it, text, actions>>

\* exec_block's next statement of f; before is the environment the statement
\* started from
ExecStmt ==
    /\ pc = "called" /\ run.st = "running"
    /\ IF run.i > Len(Body(UserFunc(module, "f")))
       THEN /\ run' = [run EXCEPT !.st = "done"]
            /\ UNCHANGED before
       ELSE /\ \E r \in {Interp("exec_stmt", <<Body(UserFunc(module, "f"))[run.i], run.env,
                                               module, "f", 1, World({"pure"}, module, FALSE)>>)} :
                  run' = [st |-> CASE r.st = "ok" -> "running"
                                   [] r.st = "return" -> "done"
                                   [] OTHER -> "fault",
                          i |-> run.i + 1, env |-> r.env, fault |-> r.fault]
            /\ before' = run.env
    /\ last' = "exec_stmt"
    /\ UNCHANGED <<module, issues, pc, it, text, actions>>

NextEnv == CallUser \/ ExecStmt
SpecEnv == InitEnv /\ [][NextEnv]_vars

\* C22 (no reassignment): a name bound in the call's environment keeps its
\* value over every statement the body executes.
C22_NoReassignment ==
    pc = "called" =>
        \A name \in DOMAIN before : name \in DOMAIN run.env /\ run.env[name] = before[name]

(***************************************************************************)
(* SpecCanon: canonicalize on modules whose function carries any of the    *)
(* optional keys, in any of three key orders                               *)
(***************************************************************************)
\* the keys a function may carry besides name, params and body; x is a key
\* the format does not name
OptionalKeys == {"doc", "returns", "effects", "x"}
CanonValue(key, doc, body) ==
    CASE key = "name" -> JStr("f")
      [] key = "doc" -> doc
      [] key = "params" -> StrList(<<"x">>)
      [] key = "returns" -> JStr("Int")
      [] key = "effects" -> StrList(<<"pure">>)
      [] key = "body" -> JArr(body)
      [] key = "x" -> JNum(1)
\* the key orders: that of FUNCTION_KEY_ORDER with x last, its reverse, and
\* the alphabetical one
CanonOrders(keys) ==
    {SelectSeq(FUNCTION_KEY_ORDER \o <<"x">>, LAMBDA k : k \in keys),
     SelectSeq(<<"x", "body", "effects", "returns", "params", "doc", "name">>, LAMBDA k : k \in keys),
     sorted(keys)}
CanonFunctions ==
    UNION {{JObj(order, [i \in 1..Len(order) |-> CanonValue(order[i], doc, body)]) :
               order \in CanonOrders({"name", "params", "body"} \cup opt),
               doc \in IF "doc" \in opt THEN {JStr("d"), JNull} ELSE {JNull},
               body \in {<<ReturnStmt(VarRef("x"))>>, <<LetStmt("y", JNull), ReturnStmt(JNull)>>}} :
           opt \in SUBSET OptionalKeys}
CanonTests ==
    {<<>>,
     <<JObj(<<"name", "fn", "args", "expect">>, <<JStr("t"), JStr("f"), JArr(<<JNum(1)>>), JNum(1)>>)>>,
     <<JObj(<<"name", "fn", "args", "expect">>, <<JStr("t"), JStr("f"), JArr(<<JNum(1)>>), JNull>>)>>}
CanonDocs ==
    {JObj(<<"module", "version", "functions", "tests">>,
          <<JStr("m"), JStr("1"), JArr(<<fn>>), JArr(tests)>>) :
        fn \in CanonFunctions, tests \in CanonTests}

InitCanon ==
    /\ module \in CanonDocs
    /\ issues = <<>>
    /\ before = <<>>
    /\ pc = "loaded"
    /\ it = 0
    /\ last = "load"
    /\ run = JNull
    /\ text = <<>>
    /\ actions = <<>>

\* canon = canonicalize(ast)
Canonicalize ==
    /\ pc = "loaded"
    /\ run' = canonicalize(module)
    /\ pc' = "canonical"
    /\ last' = "canonicalize"
    /\ UNCHANGED <<module, issues, before, it, text, actions>>

NextCanon == Canonicalize
SpecCanon == InitCanon /\ [][NextCanon]_vars

\* the keys of a function object are those of FUNCTION_KEY_ORDER, in its
\* order, then the others in sorted order
InFunctionKeyOrder(fn) ==
    fn.ks = SelectSeq(FUNCTION_KEY_ORDER, LAMBDA k : Has(fn, k))
            \o sorted(Range(fn.ks) \ Range(FUNCTION_KEY_ORDER))

\* C23 (canonical function key order): in the output of canonicalize the
\* keys of every function object are in the order of FUNCTION_KEY_ORDER, the
\* keys it does not name after them in sorted order; for functions without
\* the optional effects key too.
C23_FunctionKeyOrder ==
    pc = "canonical" =>
        \A i \in 1..Len(Get(run, "functions").vs) :
            InFunctionKeyOrder(Get(run, "functions").vs[i])

\* equality of JSON values whose objects are unordered
RECURSIVE SameValue(_, _)
SameValue(a, b) ==
    IF IsDict(a) /\ IsDict(b)
    THEN /\ Range(a.ks) = Range(b.ks)
         /\ \A k \in Range(a.ks) : SameValue(Get(a, k), Get(b, k))
    ELSE IF IsList(a) /\ IsList(b)
    THEN /\ Len(a.vs) = Len(b.vs)
         /\ \A i \in 1..Len(a.vs) : SameValue(a.vs[i], b.vs[i])
    ELSE a = b

\* C28 (canonicalize only reorders keys): canonicalize(x) equals x as an
\* unordered JSON value: no key and no value is added, dropped or changed,
\* keys whose value is null included.
C28_OnlyReorders == pc = "canonical" => SameValue(run, module)

(***************************************************************************)
(* SpecSuggest: suggest_patches on the effect issues of modules whose      *)
(* function declares its effects in every order                            *)
(***************************************************************************)
\* the declared effect lists: every list of at most two distinct tags
DeclaredLists ==
    {<<>>} \cup {<<t>> : t \in Range(EffectTags)}
    \cup {p \in Range(EffectTags) \X Range(EffectTags) : p[1] # p[2]}
\* the builtins the body calls, in order
SuggestCallees ==
    {SelectSeq(<<"print", "http_get", "add">>, LAMBDA c : c \in s) :
        s \in SUBSET {"print", "http_get", "add"}}
SuggestModules ==
    {Module(<<Function("f", <<>>, e, CallBody(c, TRUE))>>) :
        e \in DeclaredLists, c \in SuggestCallees}

InitSuggest ==
    /\ module \in SuggestModules
    /\ issues = Effects("check_effects", <<module>>)
    /\ before = <<>>
    /\ pc = "checked"
    /\ it = 0
    /\ last = "check"
    /\ run = <<>>
    /\ text = <<>>
    /\ actions = <<>>

\* patches = suggest_patches(module, issues)
Suggest ==
    /\ pc = "checked"
    /\ run' = RepairSuggest("suggest_patches", <<module, issues>>)
    /\ pc' = "suggested"
    /\ last' = "suggest"
    /\ UNCHANGED <<module, issues, before, it, text, actions>>

NextSuggest == Suggest
SpecSuggest == InitSuggest /\ [][NextSuggest]_vars

\* declared ∪ missing in sorted order, pure dropped beside a non-pure tag
SortedUnion(declared, missing) ==
    LET union == declared \cup missing
    IN SortedTags(IF union \ {"pure"} # {} THEN union \ {"pure"} ELSE union)
\* the replace patches among run that address function i's effects
EffectReplaces(i) ==
    SelectSeq(run, LAMBDA p : Get(p, "op") = JStr("replace")
                              /\ Get(p, "path") = StrList(<<"functions", IdxStr(i), "effects">>))

\* C24 (MissingEffect patch value): for a MissingEffect issue on function i the
\* suggester emits exactly one replace of /functions/i/effects, and its value
\* is declared ∪ missing in sorted order with pure dropped when a non-pure
\* tag is present.
C24_MissingEffectSorted ==
    pc = "suggested" =>
        \A k \in 1..Len(issues) :
            issues[k].code = "MissingEffect" =>
                LET i == SegInt(issues[k].pointer[2])
                    fn == Functions(module)[i + 1]
                    declared == DeclaredOrPure(fn)
                    required == Effects("compute_transitive_effects", <<module>>).memo[Get(fn, "name").s]
                IN /\ Len(EffectReplaces(i)) = 1
                   /\ Get(EffectReplaces(i)[1], "value")
                        = StrList(SortedUnion(declared, required \ declared))

(***************************************************************************)
(* SpecDiagnose: AstraEngine.diagnose on the analyser modules              *)
(***************************************************************************)
\* the names the module astra.tools.effects defines or imports
EffectsNamespace ==
    {"Any", "BUILTIN_EFFECTS", "Dict", "EffectIssue", "Iterable", "List", "Path", "Set",
     "Tuple", "_qual_last", "_user_function_index", "annotations", "argparse",
     "check_effects", "compute_transitive_effects", "dataclass", "iter_calls", "json",
     "main", "sys"}
\* what fmt.validate may return: no issue, or one issue of the schema
SchemaIssueLists == {<<>>, <<[pointer |-> <<>>, validator |-> "required"]>>}

NoDiagnostics == [raised |-> "no", schema |-> <<>>, semantic |-> <<>>, types |-> <<>>, effects |-> <<>>]
\* AstraEngine.diagnose(module), schema_issues being what fmt.validate returned:
\* the four calls in order, the first exception ending the call
diagnose(mod, schema_issues) ==
    IF semantic_raises(mod) THEN [NoDiagnostics EXCEPT !.raised = "semantic.check_module"]
    ELSE IF typecheck_raises(mod) THEN [NoDiagnostics EXCEPT !.raised = "typecheck.check_module"]
    ELSE IF "check_module" \notin EffectsNamespace THEN [NoDiagnostics EXCEPT !.raised = "AttributeError"]
    ELSE IF effects_raises(mod) THEN [NoDiagnostics EXCEPT !.raised = "effects.check_module"]
    ELSE [raised |-> "no", schema |-> schema_issues,
          semantic |-> Semantic("check_module", <<mod>>),
          types |-> Typecheck("check_module", <<mod>>),
          effects |-> Effects("check_effects", <<mod>>)]

InitDiagnose ==
    /\ module \in AnalyserModules
    /\ issues = <<>>
    /\ before = <<>>
    /\ pc = "loaded"
    /\ it = 0
    /\ last = "load"
    /\ run = NoDiagnostics
    /\ text = <<>>
    /\ actions = <<>>

\* diag = eng.diagnose(mod)
Diagnose ==
    /\ pc = "loaded"
    /\ \E schema_issues \in SchemaIssueLists :
          /\ run' = diagnose(module, schema_issues)
          /\ before' = schema_issues
    /\ pc' = "diagnosed"
    /\ last' = "diagnose"
    /\ UNCHANGED <<module, issues, it, text, actions>>

NextDiagnose == Diagnose
SpecDiagnose == InitDiagnose /\ [][NextDiagnose]_vars

\* C25 (diagnose returns): for every module diagnose returns a Diagnostics
\* record holding the four issue lists and does not fail before returning.
C25_DiagnoseReturns ==
    pc = "diagnosed" =>
        /\ run.raised = "no"
        /\ run.schema = before
        /\ run.semantic = Semantic("check_module", <<module>>)
        /\ run.types = Typecheck("check_module", <<module>>)
        /\ run.effects = Effects("check_effects", <<module>>)

(***************************************************************************)
(* SpecMerge: the walk of semantic._analyze_block over a function body,    *)
(* statement by statement, into either branch of an if                     *)
(***************************************************************************)
MergeBranches ==
    Branches \cup {<<LetStmt("y", JNum(1)), ReturnStmt(VarRef("y"))>>,
                   <<IfStmt(XBelowOne, <<LetStmt("z", JNum(1))>>, <<ReturnStmt(JNum(1))>>)>>}
MergeStmts ==
    {LetStmt("y", JNum(1)), LetStmt("z", VarRef("y")), ReturnStmt(VarRef("y"))}
    \cup {IfStmt(XBelowOne, t, e) : t \in MergeBranches, e \in MergeBranches}
\* f(x): nothing, one statement, or one statement and then a let or a return
MergeModules ==
    {Module(<<Function("f", <<"x">>, <<"pure">>, body)>>) :
        body \in {<<>>} \cup {<<s>> : s \in MergeStmts}
                 \cup {<<s, t>> : s \in MergeStmts,
                                  t \in {LetStmt("z", VarRef("y")), ReturnStmt(VarRef("y"))}}}

\* the walk's position: the flow before the next statement, whether the block
\* has terminated, and the statement analysed last with its input flow
Walk(flow, ret, flow_in, stmt) == [flow |-> flow, ret |-> ret, flow_in |-> flow_in, stmt |-> stmt]

InitMerge ==
    /\ module \in MergeModules
    /\ issues = <<>>
    /\ before = <<>>
    /\ pc = "loaded"
    /\ it = 0
    /\ last = "load"
    /\ run = Walk(Flow({}, {}), FALSE, Flow({}, {}), JNull)
    /\ text = <<>>
    /\ actions = <<>>

\* check_module: flow0 of a function's parameters, and its body
EnterFunction ==
    /\ pc = "loaded"
    /\ \E i \in 1..Len(Functions(module)) :
          LET fn == Functions(module)[i]
              flow0 == Flow(StrParams(fn), StrParams(fn))
          IN /\ run' = Walk(flow0, FALSE, flow0, JNull)
             /\ actions' = Body(fn)
    /\ pc' = "block"
    /\ it' = 0
    /\ last' = "enter"
    /\ UNCHANGED <<module, issues, before, text>>

\* one turn of the loop of _analyze_block on a block that has not terminated:
\* flow, always_returns = _analyze_stmt(stmt, stmt_ptr, flow, issues, known_arities)
AnalyzeStmt ==
    /\ pc = "block" /\ it < Len(actions) /\ ~run.ret
    /\ \E out \in {Semantic("_analyze_stmt",
                            <<actions[it + 1], <<>>, run.flow, known_arities(module)>>)} :
          run' = Walk(out.flow, out.ret, run.flow, actions[it + 1])
    /\ it' = it + 1
    /\ last' = "stmt"
    /\ UNCHANGED <<module, issues, before, pc, text, actions>>

\* _analyze_stmt on an if: _analyze_block(then, ..., flow_in, ...) and
\* _analyze_block(els, ..., flow_in, ...), each from the if's input flow
EnterBranch ==
    /\ pc = "block" /\ it < Len(actions) /\ ~run.ret
    /\ Has(actions[it + 1], "if")
    /\ \E branch \in {"then", "else"} :
          actions' = Get(Get(actions[it + 1], "if"), branch).vs
    /\ run' = Walk(run.flow, FALSE, run.flow, JNull)
    /\ it' = 0
    /\ last' = "branch"
    /\ UNCHANGED <<module, issues, before, pc, text>>

NextMerge ==
    \/ EnterFunction
    \/ AnalyzeStmt
    \/ EnterBranch
SpecMerge == InitMerge /\ [][NextMerge]_vars

\* the result of a branch of the if analysed last, from that if's input flow
BranchOut(branch) ==
    Semantic("_analyze_block",
             <<Get(Get(run.stmt, "if"), branch).vs, <<>>, run.flow_in, known_arities(module)>>)

\* C27 (semantic flow merge): in every flow state of the analysis definite is
\* a subset of maybe; after an if the flow is (definite_then intersected with
\* definite_else, maybe_then united with maybe_else), both branches analysed
\* from the if's input flow, and the if always returns only when both
\* branches do.
C27_FlowMerge ==
    /\ run.flow.definite \subseteq run.flow.maybe
    /\ (last = "stmt" /\ Has(run.stmt, "if")) =>
          /\ run.flow.definite
                = BranchOut("then").flow.definite \cap BranchOut("else").flow.definite
          /\ run.flow.maybe = BranchOut("then").flow.maybe \cup BranchOut("else").flow.maybe
          /\ run.ret = (BranchOut("then").ret /\ BranchOut("else").ret)
\* after if x < 1 then [let y] else [], from the flow ({x}, {x}): y is maybe
\* assigned, not definitely, and the if does not always return
C27_Witness ==
    /\ last = "stmt"
    /\ run.stmt = IfStmt(XBelowOne, <<LetStmt("y", JNum(1))>>, <<>>)
    /\ run.flow_in = [definite |-> {"x"}, maybe |-> {"x"}]
    /\ run.flow = [definite |-> {"x"}, maybe |-> {"x", "y"}]
    /\ ~run.ret

(***************************************************************************)
(* SpecResolve: modules in which f calls a function the module defines     *)
(* under a builtin's name or under a free name                             *)
(***************************************************************************)
CalleeNames == {"print", "add", "lt", "not", "g", "h"}
\* the function named n: it returns 7, and where n names a builtin its arity
\* and its declared effects are not the builtin's
NamedLike(n) ==
    {Function(n, params, e, <<ReturnStmt(JNum(7))>>) :
        params \in {p \in {<<"a">>, <<"a", "b">>} :
                       n \in BuiltinNames => Len(p) # BUILTIN_ARITY[n]},
        e \in {d \in {<<"pure">>, <<"io.print">>} :
                  n \in BuiltinNames => {d[1]} # BUILTIN_EFFECTS[n]}}
ResolveModules ==
    {Module(<<Function("f", <<"x">>, <<"pure">>,
                       <<ReturnStmt(Call(Get(callee, "name").s, args))>>),
              callee>>) :
        callee \in UNION {NamedLike(n) : n \in CalleeNames},
        args \in {<<JNum(1)>>, <<JNum(1), JNum(1)>>}}

InitResolve == InitRun(ResolveModules)
\* run_module(module, "f", [x], allowed_effects)
RunResolve ==
    \E x \in {0, 1}, allowed_effects \in {{"pure"}, {"pure", "io.print"}} :
        RunModule("f", <<JNum(x)>>, allowed_effects, FALSE)
NextResolve == RunResolve
SpecResolve == InitResolve /\ [][NextResolve]_vars

\* the function f calls
Callee == Get(Functions(module)[2], "name").s
\* what each pass takes the name n for: the module's function or the builtin
SemanticCallee(n) ==
    IF known_arities(module)[n] = UserArity(UserFunc(module, n)) THEN "user" ELSE "builtin"
TypecheckCallee(n) ==
    IF Typecheck("SigOf", <<module, n>>) = _sig_from_function(UserFunc(module, n))
    THEN "user" ELSE "builtin"
EffectsCallee(n) ==
    IF Effects("compute_transitive_effects", <<module>>).memo[n]
          = DeclaredOrPure(UserFunc(module, n))
    THEN "user" ELSE "builtin"
\* the module's function returns 7 or refuses the arguments with a
\* SandboxError; no builtin of CalleeNames does either
InterpCallee ==
    IF (run.res.st = "ok" /\ run.res.val = JNum(7)) \/ run.res.fault = "SandboxError"
    THEN "user" ELSE "builtin"

\* C29 (callee resolution): the semantic arity check, the type checker's
\* signature lookup, the effect checker and the interpreter take the name f
\* calls for the same entity, also when a function of the module carries a
\* builtin's name.
C29_SameCallee ==
    pc = "ran" =>
        /\ SemanticCallee(Callee) = TypecheckCallee(Callee)
        /\ TypecheckCallee(Callee) = EffectsCallee(Callee)
        /\ EffectsCallee(Callee) = InterpCallee

(***************************************************************************)
(* SpecSuite: run_tests on modules with up to two module-level tests,      *)
(* called again and again in one process under different allow-lists       *)
(***************************************************************************)
\* print(v), a gated builtin in a test's args or expect
PrintCall(v) == Call("print", <<JNum(v)>>)
TestCase(arg, expect) ==
    JObj(<<"name", "fn", "args", "expect">>, <<JStr("t"), JStr("f"), JArr(<<arg>>), expect>>)
SuiteCases ==
    {TestCase(arg, expect) : arg \in {JNum(0), PrintCall(1)}, expect \in {JNum(0), JNull, PrintCall(2)}}
\* f(x) returns x
SuiteModules ==
    {JObj(<<"module", "version", "functions", "tests">>,
          <<JStr("m"), JStr("1"),
            JArr(<<Function("f", <<"x">>, <<"pure">>, <<ReturnStmt(VarRef("x"))>>)>>),
            JArr(tests)>>) :
        tests \in {<<c>> : c \in SuiteCases} \cup {<<c, d>> : c \in SuiteCases, d \in SuiteCases}}

\* what run_tests reports of a test case
Outcome(t) == [ok |-> t.ok, actual |-> t.actual, expected |-> t.expected, err |-> t.err]
\* the loop of run_tests over the module-level tests from test i on, in the
\* process state proc: [outcomes, proc]
RECURSIVE tests_from(_, _, _, _)
tests_from(mod, i, allowed_effects, proc) ==
    LET tests == GetOr(mod, "tests", JArr(<<>>)).vs
    IN IF i > Len(tests) THEN [outcomes |-> <<>>, proc |-> proc]
       ELSE LET tc == tests[i]
                fn == GetOr(tc, "fn", JNull)
                args == GetOr(tc, "args", JArr(<<>>))
            IN IF ~IsDict(tc) \/ ~IsStr(fn) \/ ~IsList(args)
               THEN tests_from(mod, i + 1, allowed_effects, proc)
               ELSE LET t == Testrun("run_testcase",
                                     <<mod, fn.s, args.vs, GetOr(tc, "expect", JNull),
                                       allowed_effects, proc>>)
                        rest == tests_from(mod, i + 1, allowed_effects, t.proc)
                    IN [rest EXCEPT !.outcomes = <<Outcome(t)>> \o @]
\* run_tests(module, allowed_effects): no function of the suite modules
\* carries tests of its own
run_tests(mod, allowed_effects, proc) == tests_from(mod, 1, allowed_effects, proc)

InitSuite ==
    /\ module \in SuiteModules
    /\ issues = <<>>
    /\ before = <<>>
    /\ pc = "loaded"
    /\ it = 0
    /\ last = "load"
    /\ run = Process({"pure"}, JNull)
    /\ text = <<>>
    /\ actions = <<>>

\* failures = run_tests(module, allowed_effects)
RunTests ==
    /\ \E allowed_effects \in {{"pure"}, {"io.print"}, {"pure", "io.print"}} :
          \E r \in {run_tests(module, allowed_effects, run)} :
              /\ actions' = [allowed |-> allowed_effects, outcomes |-> r.outcomes]
              /\ run' = r.proc
    /\ pc' = "tested"
    /\ last' = "run_tests"
    /\ UNCHANGED <<module, issues, before, it, text>>

NextSuite == RunTests
SpecSuite == InitSuite /\ [][NextSuite]_vars

\* test case i run on its own in a process whose allow-list is the one given
\* to run_tests
Alone(i) ==
    LET tc == Get(module, "tests").vs[i]
    IN Outcome(Testrun("run_testcase",
                       <<module, Get(tc, "fn").s, Get(tc, "args").vs, Get(tc, "expect"),
                         actions.allowed, Process(actions.allowed, module)>>))

\* C30 (tests gated by the run's allow-list): the outcome of every test case
\* of a run_tests call is the one it has when every builtin it invokes, in
\* args and expect too, is gated by the allowed_effects of that call,
\* whatever its position and whatever ran before in the process.
C30_GatedByRun ==
    pc = "tested" =>
        \A i \in 1..Len(actions.outcomes) : actions.outcomes[i] = Alone(i)

Init == InitRepair
Next == NextRepair
Spec == SpecRepair
====
